---- MODULE Spec2Model ----
(***************************************************************************)
(* Model of LaserSnapV2.py: the acquisition ledger (a CSV file rewritten   *)
(* on every update), the synchronous acquisition sequencer                 *)
(* (execute_commands) and the file arrival watcher (wait_for_new_file).    *)
(*                                                                         *)
(* The ledger file is a sequence of rows, a row a sequence of text cells,  *)
(* as csv.reader returns it.  Numbers are written in decimal (ToString)    *)
(* and read back with int() (ParseInt).  The Timestamp cell holds wall     *)
(* clock text that no code path reads back; it is the fixed text           *)
(* Timestamp.  A missing ledger file and an empty one both read as <<>>.   *)
(*                                                                         *)
(* A file name is <<stem, extension>>.  The camera is the environment: a   *)
(* trigger may make it write one raw file, named after the trigger, at any *)
(* later time and in pieces; a stray file of another kind may appear too.  *)
(* The camera's steps are interleaved only where the program reads the     *)
(* folder next (they commute with the steps that do not read it).          *)
(***************************************************************************)
EXTENDS Integers, Sequences, FiniteSets, TLC

(* ------------------------------ bounds -------------------------------- *)
\* Rows of the plan (children of the tree).
MaxRows == 2
\* Largest number of pictures of one row.
MaxShots == 2
\* Largest number of steps of a plan.
MaxSteps == 3
\* Largest file size the camera writes.
MaxSize == 2
\* file_timeout (60 s in the source) scaled down to a few poll ticks.
FileTimeout == 2
\* Largest ledger index of the upsert harness.
MaxIndex == 2

\* Cubes loaded in the processing tab.
MaxCubes == 3
\* Spectral bands of a cube (one row and one column of pixels).
MaxBands == 2
\* Combine operations of one session of the processing tab.
MaxCombines == 2

\* Runs started from one output directory.
MaxRuns == 2
\* Largest reading of the wall clock, in seconds.
MaxTime == 2

(* -------------------------- program constants ------------------------- *)
\* time.sleep(1): the poll interval.
PollInterval == 1
\* time.sleep(2): the stability window.
StabilityWindow == 2

Wavelengths == {"500", "600"}
\* The raw file the camera writes for the trigger of the step of that index.
ShotFile(index) == <<"shot" \o ToString(index), ".bin">>
StrayFile == <<"notes", ".txt">>
\* A file name as text, for the ledger.
NameText(f) == f[1] \o f[2]
ProjectName == "proj"
\* Python's None, as returned by wait_for_new_file on a timeout: a value of
\* the shape of no file name.
None == <<"None">>
\* datetime.now().strftime(...): never read back by the program.
Timestamp == "<now>"
Statuses == {"pending", "completed", "timeout", "cancelled"}

VARIABLES
    plan,                \* rows of the tree: [wavelength, num_pictures]
    acquisition_log,     \* the in-memory list of plan entries
    disk,                \* rows of the ledger file at acquisition_log_path
    pc,                  \* position of the handler
    child, pic, acquisition_index,   \* counters of the pre-population loops
    cur,                 \* position of the driver loop in acquisition_log
    rem,                 \* position of the cancellation loop
    folder,              \* raw_data_folder: file name -> size
    initial_files, elapsed, new_files, cand, file_size,  \* the watcher's locals
    new_file,            \* what wait_for_new_file returned
    result,              \* the operator's answer to askyesno
    experiment_finished,
    trace,               \* history of the events issued, in order
    crash,               \* what a crash interrupted (history)
    h,                   \* state of the upsert harness
    stop_monitoring,     \* the flag that ends the background monitoring
    current_acquisition_index,   \* the step the resumed loop triggered last
    monitoring_thread,   \* the background worker of a resumed run
    arrays,              \* the numeric arrays in memory, by address
    loaded_cubes,        \* the cubes of the processing tab, in loading order
    selected_images,     \* the indices ticked by the operator, in ticking order
    popup,               \* what the last combine handed to its popup window
    saved_images,        \* SAVED_IMAGES_DIRECTORY: name -> entry
    before_snapshot,     \* the names take_snapshot listed
    output_dir,          \* the directory at output_path: name -> entry
    now,                 \* the wall clock, in seconds
    project_window       \* the project details window of process_results

vars == <<plan, acquisition_log, disk, pc, child, pic, acquisition_index, cur,
          rem, folder, initial_files, elapsed, new_files, cand, file_size,
          new_file, result, experiment_finished, trace, crash, h,
          stop_monitoring, current_acquisition_index, monitoring_thread,
          arrays, loaded_cubes, selected_images, popup, saved_images,
          before_snapshot, output_dir, now, project_window>>

cubeVars == <<arrays, loaded_cubes, selected_images, popup>>
fileVars == <<saved_images, before_snapshot, output_dir, now, project_window>>
postVars == <<cubeVars, fileVars>>
resumeVars == <<stop_monitoring, current_acquisition_index, monitoring_thread>>
seqVars == <<child, pic, acquisition_index, cur, rem>>
watchVars == <<initial_files, elapsed, new_files, cand, file_size>>
\* The variables of the acquisition tab.
runVars == <<plan, acquisition_log, disk, pc, seqVars, folder, watchVars,
             new_file, result, experiment_finished, trace, crash, h, resumeVars>>

(* ------------------------------ the ledger ---------------------------- *)
Header == <<"Index", "Wavelength", "Picture_Number", "Expected_Name",
            "Raw_Filename", "Status", "Timestamp", "File_Size_Bytes">>

\* int(text) for the decimal text of a natural number.
ParseInt(text) == CHOOSE n \in 0..99 : ToString(n) = text

\* One row as csv.writer writes the list [index, wavelength, pic_num, ...].
CsvRow(index, wavelength, pic_num, expected_name, raw_filename, status, size) ==
    <<ToString(index), wavelength, ToString(pic_num), expected_name,
      raw_filename, status, Timestamp, ToString(size)>>

\* The first cell compared as text with the number: never equal.
MatchingRowsText(existing_data, index) == {}

\* Lines 97-98: the rows after the header whose first cell is the index.
MatchingRows(existing_data, index) ==
    {i \in 2..Len(existing_data) :
        Len(existing_data[i]) > 0 /\ ParseInt(existing_data[i][1]) = index}

\* update_acquisition_log with the first matching row never found.
UpdateRowsNoMatch(existing_data, index, row) ==
    IF existing_data # <<>> THEN Append(existing_data, row) ELSE existing_data

\* update_acquisition_log with the row of that index taken out and the new
\* row put at the end.
UpdateRowsMoveToEnd(existing_data, index, row) ==
    IF existing_data = <<>> THEN existing_data
    ELSE LET others == {i \in 2..Len(existing_data) :
                          ~(Len(existing_data[i]) > 0
                            /\ ParseInt(existing_data[i][1]) = index)}
             Kept[n \in 1..Len(existing_data)] ==
                 IF n = 1 THEN <<existing_data[1]>>
                 ELSE IF n \in others THEN Append(Kept[n - 1], existing_data[n])
                 ELSE Kept[n - 1]
         IN Append(Kept[Len(existing_data)], row)

\* update_acquisition_log: overwrite the first row of that index, else append
\* (only to a file that has at least one row).
UpdateRows(existing_data, index, row) ==
    LET m == MatchingRows(existing_data, index) IN
    IF m # {}
    THEN LET i == CHOOSE k \in m : \A j \in m : k <= j
         IN [existing_data EXCEPT ![i] = row]
    ELSE IF existing_data # <<>> THEN Append(existing_data, row)
    ELSE existing_data

\* f"{project_name}_{wavelength}_{i}"
ExpectedName(wavelength, i) ==
    ProjectName \o "_" \o wavelength \o "_" \o ToString(i)

\* The ledger update of one entry of acquisition_log.
UpdateEntry(existing_data, entry, raw_filename, status, size) ==
    UpdateRows(existing_data, entry.index,
               CsvRow(entry.index, entry.wavelength, entry.pic_num,
                      entry.expected_name, raw_filename, status, size))

(* ----------------------------- reading rows --------------------------- *)
Records(d) == {i \in 2..Len(d) : Len(d[i]) > 0}
IndexOf(row) == ParseInt(row[1])
Indices(d) == {IndexOf(d[i]) : i \in Records(d)}
RowsOf(d, index) == {i \in Records(d) : IndexOf(d[i]) = index}
HasRecord(d, index) == RowsOf(d, index) # {}
RecordOf(d, index) == d[CHOOSE i \in RowsOf(d, index) : TRUE]
StatusOf(d, index) == RecordOf(d, index)[6]
RawOf(d, index) == RecordOf(d, index)[5]
SizeOf(d, index) == RecordOf(d, index)[8]

Event(ev, index, arg) == [ev |-> ev, index |-> index, arg |-> arg]

(* ------------------------------- plans -------------------------------- *)
Rows == [wavelength : Wavelengths, num_pictures : 1..MaxShots]
RECURSIVE SeqsUpTo(_, _)
SeqsUpTo(S, n) ==
    IF n = 0 THEN {<<>>}
    ELSE LET shorter == SeqsUpTo(S, n - 1)
         IN shorter \cup {Append(s, x) : s \in {t \in shorter : Len(t) = n - 1}, x \in S}
RECURSIVE Total(_)
Total(p) == IF p = <<>> THEN 0 ELSE p[1].num_pictures + Total(Tail(p))
Plans == {p \in SeqsUpTo(Rows, MaxRows) : Total(p) <= MaxSteps}

\* The driver loop never branches on a wavelength: whole runs are explored
\* for the plans whose rows alternate between the two wavelengths, every
\* plan is explored through the pre-population (SpecPlan).
RunPlans ==
    {p \in Plans : \A r \in 1..Len(p) :
        p[r].wavelength = IF r % 2 = 1 THEN "500" ELSE "600"}

NoHarness == [phase |-> "off"]
NoCrash == [at |-> "none"]
\* No background worker has been started.
NoThread == [state |-> "none"]

\* The variables of a handler that has not run yet.
Fresh ==
    /\ acquisition_log = <<>>
    /\ child = 1 /\ pic = 1 /\ acquisition_index = 0
    /\ cur = 1 /\ rem = 1
    /\ folder = [f \in {} |-> 0]
    /\ initial_files = {} /\ elapsed = 0 /\ new_files = {}
    /\ cand = None /\ file_size = 0
    /\ new_file = None
    /\ result = TRUE
    /\ experiment_finished = FALSE
    /\ trace = <<>>
    /\ crash = NoCrash
    /\ stop_monitoring = FALSE
    /\ current_acquisition_index = -1
    /\ monitoring_thread = NoThread

\* An empty directory.
EmptyDir == [name \in {} |-> <<>>]
NoPopup == [kind |-> "none"]
NoWindow == [state |-> "none"]

\* Nothing is loaded in the processing tab, the camera software has saved no
\* cube, the output directory is empty.
NoPost ==
    /\ arrays = <<>>
    /\ loaded_cubes = <<>>
    /\ selected_images = <<>>
    /\ popup = NoPopup
    /\ saved_images = EmptyDir
    /\ before_snapshot = {}
    /\ output_dir = EmptyDir
    /\ now = 0
    /\ project_window = NoWindow

Idle ==
    /\ plan \in Plans
    /\ disk = <<>>
    /\ pc = "idle"
    /\ h = NoHarness
    /\ Fresh
    /\ NoPost

(* ------------------- execute_commands: pre-population ----------------- *)
\* Lines 688-695: reset the log, create the ledger file with its header.
Start ==
    /\ pc = "idle"
    /\ acquisition_log' = <<>>
    /\ disk' = <<Header>>
    /\ acquisition_index' = 0
    /\ child' = 1 /\ pic' = 1
    /\ pc' = "prepopulate"
    /\ UNCHANGED <<postVars, resumeVars, plan, cur, rem, folder, watchVars, new_file, result,
                   experiment_finished, trace, crash, h>>

\* The entry numbered by the inner loop's counter instead of acquisition_index.
NewEntryByPicture(index, wavelength, i) ==
    [index |-> i - 1, wavelength |-> wavelength, pic_num |-> i,
     expected_name |-> ExpectedName(wavelength, i)]

\* Lines 700-708: the entry of one pass of the inner loop.
NewEntry(index, wavelength, i) ==
    [index |-> index, wavelength |-> wavelength, pic_num |-> i,
     expected_name |-> ExpectedName(wavelength, i)]

\* The pass with the ledger write left out.
PrePopulateUnwritten ==
    /\ pc = "prepopulate"
    /\ child <= Len(plan)
    /\ pic <= plan[child].num_pictures
    /\ acquisition_log' =
          Append(acquisition_log,
                 NewEntry(acquisition_index, plan[child].wavelength, pic))
    /\ acquisition_index' = acquisition_index + 1
    /\ pic' = pic + 1
    /\ UNCHANGED <<postVars, resumeVars, plan, disk, pc, child, cur, rem, folder, watchVars, new_file,
                   result, experiment_finished, trace, crash, h>>

\* Lines 700-712: one pass of the inner loop.
PrePopulate ==
    /\ pc = "prepopulate"
    /\ child <= Len(plan)
    /\ pic <= plan[child].num_pictures
    /\ LET entry == NewEntry(acquisition_index, plan[child].wavelength, pic) IN
        /\ acquisition_log' = Append(acquisition_log, entry)
        /\ disk' = UpdateEntry(disk, entry, "", "pending", 0)
        /\ trace' = Append(trace, Event("upsert", entry.index, "pending"))
    /\ acquisition_index' = acquisition_index + 1
    /\ pic' = pic + 1
    /\ UNCHANGED <<postVars, resumeVars, plan, pc, child, cur, rem, folder, watchVars, new_file,
                   result, experiment_finished, crash, h>>

\* Lines 696-700: the inner range is exhausted, take the next child.
NextChild ==
    /\ pc = "prepopulate"
    /\ child <= Len(plan)
    /\ pic > plan[child].num_pictures
    /\ child' = child + 1
    /\ pic' = 1
    /\ UNCHANGED <<postVars, resumeVars, plan, acquisition_log, disk, pc, acquisition_index, cur, rem,
                   folder, watchVars, new_file, result, experiment_finished,
                   trace, crash, h>>

\* Lines 714-718: the pre-population loops are done, open the light source.
OpenDevice ==
    /\ pc = "prepopulate"
    /\ child > Len(plan)
    /\ cur' = 1
    /\ before_snapshot' = DOMAIN saved_images
    /\ pc' = "loop"
    /\ UNCHANGED <<cubeVars, saved_images, output_dir, now, project_window,
                   resumeVars, plan, acquisition_log, disk, child, pic,
                   acquisition_index, rem, folder, watchVars, new_file, result,
                   experiment_finished, trace, crash, h>>

(* --------------------- execute_commands: driver loop ------------------ *)
Entry == acquisition_log[cur]

\* f"Acquiring: {wavelength}nm #{pic_num} ({index + 1}/{len(acquisition_log)})"
StatusText(entry, total) ==
    "Acquiring: " \o entry.wavelength \o "nm #" \o ToString(entry.pic_num)
        \o " (" \o ToString(entry.index + 1) \o "/" \o ToString(total) \o ")"

\* The step with the wavelength command sent before the status update.
StepBeginCommandFirst ==
    /\ pc = "loop"
    /\ cur <= Len(acquisition_log)
    /\ trace' = trace \o
          <<Event("gowave", Entry.index, Entry.wavelength),
            Event("progress", Entry.index, StatusText(Entry, Len(acquisition_log)))>>
    /\ pc' = "trigger"
    /\ UNCHANGED <<postVars, resumeVars, plan, acquisition_log, disk, seqVars, folder, watchVars,
                   new_file, result, experiment_finished, crash, h>>

\* Lines 721-732: progress label, then gowave and the settling sleep.
StepBegin ==
    /\ pc = "loop"
    /\ cur <= Len(acquisition_log)
    /\ trace' = trace \o
          <<Event("progress", Entry.index, StatusText(Entry, Len(acquisition_log))),
            Event("gowave", Entry.index, Entry.wavelength)>>
    /\ pc' = "trigger"
    /\ UNCHANGED <<postVars, resumeVars, plan, acquisition_log, disk, seqVars, folder, watchVars,
                   new_file, result, experiment_finished, crash, h>>

\* The trigger sent and the loop going on without the wait for the file.
SendTriggerNoWait ==
    /\ pc = "trigger"
    /\ trace' = Append(trace, Event("trigger", Entry.index, "trigger"))
    /\ cur' = cur + 1
    /\ pc' = "loop"
    /\ UNCHANGED <<postVars, resumeVars, plan, acquisition_log, disk, child, pic, acquisition_index,
                   rem, folder, watchVars, new_file, result,
                   experiment_finished, crash, h>>

\* Lines 734-736 and send_trigger (433-438).
SendTrigger ==
    /\ pc = "trigger"
    /\ trace' = Append(trace, Event("trigger", Entry.index, "trigger"))
    /\ pc' = "wait"
    /\ UNCHANGED <<postVars, resumeVars, plan, acquisition_log, disk, seqVars, folder, watchVars,
                   new_file, result, experiment_finished, crash, h>>

(* --------------------------- wait_for_new_file ------------------------ *)
\* new_file.endswith('.bin')
EndsWithBin(f) == f[2] = ".bin"

Listing == DOMAIN folder

\* The wait begun with an empty baseline.
WaitStartNoBaseline ==
    /\ pc = "wait"
    /\ initial_files' = {}
    /\ elapsed' = 0
    /\ trace' = Append(trace, Event("wait", Entry.index, ToString(FileTimeout)))
    /\ pc' = "poll"
    /\ UNCHANGED <<postVars, resumeVars, plan, acquisition_log, disk, seqVars, folder, new_files,
                   cand, file_size, new_file, result, experiment_finished, crash, h>>

\* Lines 120-124: the baseline listing and the start time.
WaitStart ==
    /\ pc = "wait"
    /\ initial_files' = Listing
    /\ elapsed' = 0
    /\ trace' = Append(trace, Event("wait", Entry.index, ToString(FileTimeout)))
    /\ pc' = "poll"
    /\ UNCHANGED <<postVars, resumeVars, plan, acquisition_log, disk, seqVars, folder, new_files,
                   cand, file_size, new_file, result, experiment_finished, crash, h>>

\* The listing taken as it is, the baseline not subtracted.
NewFilesAll(current_files, baseline) == current_files

\* current_files - initial_files
NewFiles(current_files, baseline) == current_files \ baseline

\* Lines 126-129: the loop test holds, list the folder again.
PollRound ==
    /\ pc = "poll"
    /\ elapsed < FileTimeout
    /\ new_files' = NewFiles(Listing, initial_files)
    /\ pc' = "scan"
    /\ UNCHANGED <<postVars, resumeVars, plan, acquisition_log, disk, seqVars, folder, initial_files,
                   elapsed, cand, file_size, new_file, result,
                   experiment_finished, trace, crash, h>>

\* The function returns: its locals are gone.
Return ==
    /\ initial_files' = {} /\ elapsed' = 0 /\ new_files' = {}
    /\ cand' = None /\ file_size' = 0

\* Lines 126, 152-154: the loop test fails, return None.
WaitTimeout ==
    /\ pc = "poll"
    /\ elapsed >= FileTimeout
    /\ new_file' = None
    /\ trace' = Append(trace, Event("none", Entry.index, "None"))
    /\ pc' = "decide"
    /\ Return
    /\ UNCHANGED <<postVars, resumeVars, plan, acquisition_log, disk, seqVars, folder,
                   result, experiment_finished, crash, h>>

\* Lines 132-135: the next new file, in the set's iteration order; a .bin
\* file gets its size read.
ScanNext ==
    /\ pc = "scan"
    /\ \E f \in new_files :
        /\ new_files' = new_files \ {f}
        /\ IF EndsWithBin(f)
           THEN /\ cand' = f
                /\ file_size' = folder[f]
                /\ pc' = "probe"
           ELSE UNCHANGED <<cand, file_size, pc>>
    /\ UNCHANGED <<postVars, resumeVars, plan, acquisition_log, disk, seqVars, folder, initial_files,
                   elapsed, new_file, result, experiment_finished, trace, crash, h>>

\* The start time taken again in every round of the loop.
ScanEndRestart ==
    /\ pc = "scan"
    /\ new_files = {}
    /\ elapsed' = 0
    /\ pc' = "poll"
    /\ UNCHANGED <<postVars, resumeVars, plan, acquisition_log, disk, seqVars, folder, initial_files,
                   new_files, cand, file_size, new_file, result,
                   experiment_finished, trace, crash, h>>

\* Line 146: no new file is left in this round, sleep one poll interval.
ScanEnd ==
    /\ pc = "scan"
    /\ new_files = {}
    /\ elapsed' = elapsed + PollInterval
    /\ pc' = "poll"
    /\ UNCHANGED <<postVars, resumeVars, plan, acquisition_log, disk, seqVars, folder, initial_files,
                   new_files, cand, file_size, new_file, result,
                   experiment_finished, trace, crash, h>>

\* The test without the comparison of the two sizes.
StableUncompared(first_size, new_size) == first_size > 0

\* if new_size == file_size and file_size > 0
Stable(first_size, new_size) == new_size = first_size /\ first_size > 0

\* Lines 138-144: the stability sleep has passed, read the size again.
Probe ==
    /\ pc = "probe"
    /\ IF Stable(file_size, folder[cand])
       THEN /\ new_file' = cand
            /\ trace' = Append(trace, Event("found", Entry.index, NameText(cand)))
            /\ pc' = "decide"
            /\ Return
       ELSE /\ pc' = "scan"
            /\ elapsed' = elapsed + StabilityWindow
            /\ UNCHANGED <<new_file, initial_files, new_files, cand,
                           file_size, trace>>
    /\ UNCHANGED <<postVars, resumeVars, plan, acquisition_log, disk, seqVars, folder, result,
                   experiment_finished, crash, h>>

(* ------------------ execute_commands: recording the step -------------- *)
\* Python truth of the watcher's return value (line 741).
Truthy(v) == v # None /\ v # <<>>

\* The completed row written without the file's name.
CompletedDataUnnamed ==
    UpdateEntry(disk, Entry, "", "completed", folder[new_file])
CompletedData ==
    UpdateEntry(disk, Entry, NameText(new_file), "completed", folder[new_file])
TimeoutData == UpdateEntry(disk, Entry, "", "timeout", 0)

\* Lines 741-757: a file arrived.
RecordCompleted ==
    /\ pc = "decide"
    /\ Truthy(new_file)
    /\ disk' = CompletedData
    /\ trace' = Append(trace, Event("upsert", Entry.index, "completed"))
    /\ cur' = cur + 1
    /\ pc' = "loop"
    /\ UNCHANGED <<postVars, resumeVars, plan, acquisition_log, child, pic, acquisition_index, rem,
                   folder, watchVars, new_file, result, experiment_finished, crash, h>>

\* The operator asked before the timeout is written.
RecordTimeoutUnwritten ==
    /\ pc = "decide"
    /\ ~Truthy(new_file)
    /\ pc' = "ask"
    /\ UNCHANGED <<postVars, resumeVars, plan, acquisition_log, disk, seqVars, folder, watchVars,
                   new_file, result, experiment_finished, trace, crash, h>>

\* Lines 758-769: no file arrived.
RecordTimeout ==
    /\ pc = "decide"
    /\ ~Truthy(new_file)
    /\ disk' = TimeoutData
    /\ trace' = Append(trace, Event("upsert", Entry.index, "timeout"))
    /\ pc' = "ask"
    /\ UNCHANGED <<postVars, resumeVars, plan, acquisition_log, seqVars, folder, watchVars, new_file,
                   result, experiment_finished, crash, h>>

\* The answer yes taken as skipping the next entry.
AskYesSkip ==
    /\ pc = "ask"
    /\ result' = TRUE
    /\ trace' = Append(trace, Event("ask", Entry.index, "yes"))
    /\ cur' = cur + 2
    /\ pc' = "loop"
    /\ UNCHANGED <<postVars, resumeVars, plan, acquisition_log, disk, child, pic, acquisition_index,
                   rem, folder, watchVars, new_file, experiment_finished, crash, h>>

\* Lines 771-778: the operator answers yes, the for loop goes on.
AskYes ==
    /\ pc = "ask"
    /\ result' = TRUE
    /\ trace' = Append(trace, Event("ask", Entry.index, "yes"))
    /\ cur' = cur + 1
    /\ pc' = "loop"
    /\ UNCHANGED <<postVars, resumeVars, plan, acquisition_log, disk, child, pic, acquisition_index,
                   rem, folder, watchVars, new_file, experiment_finished, crash, h>>

\* acquisition_log[index + 1:], as the first position of the slice (the
\* list is 0-based in the source and 1-based here).
\* The slice taken from the start of the list, and from one entry too far.
SliceAll(index) == 1
SliceSkip(index) == index + 3
SliceStart(index) == index + 2

\* The answer no taken as break alone, the remaining entries left as they
\* are.
AskNoBreak ==
    /\ pc = "ask"
    /\ result' = FALSE
    /\ trace' = Append(trace, Event("ask", Entry.index, "no"))
    /\ rem' = Len(acquisition_log) + 1
    /\ pc' = "cancel"
    /\ UNCHANGED <<postVars, resumeVars, plan, acquisition_log, disk, child, pic, acquisition_index,
                   cur, folder, watchVars, new_file, experiment_finished, crash, h>>

\* Lines 771-780: the operator answers no.
AskNo ==
    /\ pc = "ask"
    /\ result' = FALSE
    /\ trace' = Append(trace, Event("ask", Entry.index, "no"))
    /\ rem' = SliceStart(Entry.index)
    /\ pc' = "cancel"
    /\ UNCHANGED <<postVars, resumeVars, plan, acquisition_log, disk, child, pic, acquisition_index,
                   cur, folder, watchVars, new_file, experiment_finished, crash, h>>

CancelData == UpdateEntry(disk, acquisition_log[rem], "", "cancelled", 0)

\* Lines 780-790: one pass of the cancellation loop.
CancelNext ==
    /\ pc = "cancel"
    /\ rem <= Len(acquisition_log)
    /\ disk' = CancelData
    /\ trace' = Append(trace, Event("upsert", acquisition_log[rem].index, "cancelled"))
    /\ rem' = rem + 1
    /\ UNCHANGED <<postVars, resumeVars, plan, acquisition_log, pc, child, pic, acquisition_index,
                   cur, folder, watchVars, new_file, result,
                   experiment_finished, crash, h>>

\* The handler left by return instead of break after the cancellation loop.
FinishLoopOnly ==
    /\ pc = "loop" /\ cur > Len(acquisition_log)
    /\ experiment_finished' = TRUE
    /\ pc' = "finished"
    /\ UNCHANGED <<postVars, resumeVars, plan, acquisition_log, disk, seqVars, folder, watchVars,
                   new_file, result, trace, crash, h>>

\* Lines 791-797: the for loop is exhausted, or left by break.
Finish ==
    /\ \/ pc = "loop" /\ cur > Len(acquisition_log)
       \/ pc = "cancel" /\ rem > Len(acquisition_log)
    /\ experiment_finished' = TRUE
    /\ pc' = "finished"
    /\ UNCHANGED <<postVars, resumeVars, plan, acquisition_log, disk, seqVars, folder, watchVars,
                   new_file, result, trace, crash, h>>

(* ------------------------------ the camera ---------------------------- *)
\* Where the program reads the folder next.
CameraPcs == {"wait", "poll", "probe", "decide", "rsleep"}

Triggered == {trace[i].index : i \in {j \in 1..Len(trace) : trace[j].ev = "trigger"}}
Shots == {k \in 0..MaxSteps : ShotFile(k) \in Listing}

Put(f, size) == [g \in Listing \cup {f} |-> IF g = f THEN size ELSE folder[g]]

\* The camera starts writing the raw file of a trigger it has received; it
\* writes its files in the order of the triggers.
CameraCreate ==
    /\ pc \in CameraPcs
    /\ \E k \in Triggered \ Shots :
        /\ \A j \in Shots : j < k
        /\ folder' = Put(ShotFile(k), 0)
    /\ UNCHANGED <<postVars, resumeVars, plan, acquisition_log, disk, pc, seqVars, watchVars,
                   new_file, result, experiment_finished, trace, crash, h>>

\* The camera writes more of the raw file it wrote last.
CameraGrow ==
    /\ pc \in CameraPcs
    /\ \E k \in Shots :
        /\ \A j \in Shots : j <= k
        /\ folder[ShotFile(k)] < MaxSize
        /\ folder' = [folder EXCEPT ![ShotFile(k)] = @ + 1]
    /\ UNCHANGED <<postVars, resumeVars, plan, acquisition_log, disk, pc, seqVars, watchVars,
                   new_file, result, experiment_finished, trace, crash, h>>

\* A file that is no raw file appears in the folder during a wait.
StrayCreate ==
    /\ pc = "poll"
    /\ StrayFile \notin Listing
    /\ folder' = Put(StrayFile, 1)
    /\ UNCHANGED <<postVars, resumeVars, plan, acquisition_log, disk, pc, seqVars, watchVars,
                   new_file, result, experiment_finished, trace, crash, h>>

(* ------------------------------- crashes ------------------------------ *)
RunningPcs == {"prepopulate", "loop", "trigger", "wait", "poll", "scan",
               "probe", "decide", "ask", "cancel"}

\* What is left of the process after it died: the files.
Crashed(at, data, before, index) ==
    /\ pc' = "crashed"
    /\ disk' = data
    /\ crash' = [at |-> at, before |-> before, index |-> index]
    /\ acquisition_log' = <<>>
    /\ child' = 1 /\ pic' = 1 /\ acquisition_index' = 0 /\ cur' = 1 /\ rem' = 1
    /\ initial_files' = {} /\ elapsed' = 0 /\ new_files' = {}
    /\ cand' = None /\ file_size' = 0 /\ new_file' = None
    /\ result' = TRUE
    /\ experiment_finished' = FALSE
    /\ UNCHANGED <<postVars, resumeVars, plan, folder, trace, h>>

\* The process dies between two ledger updates.
CrashBetween ==
    /\ pc \in RunningPcs
    /\ Crashed("between", disk, disk, -1)

\* The rows the next ledger update of the handler writes, and its index.
WritesNext ==
    \/ pc = "prepopulate" /\ child <= Len(plan) /\ pic <= plan[child].num_pictures
    \/ pc = "decide"
    \/ pc = "cancel" /\ rem <= Len(acquisition_log)
NextData ==
    CASE pc = "prepopulate" ->
           UpdateEntry(disk, NewEntry(acquisition_index, plan[child].wavelength, pic),
                       "", "pending", 0)
      [] pc = "decide" -> IF Truthy(new_file) THEN CompletedData ELSE TimeoutData
      [] pc = "cancel" -> CancelData
NextIndex ==
    CASE pc = "prepopulate" -> acquisition_index
      [] pc = "decide" -> Entry.index
      [] pc = "cancel" -> acquisition_log[rem].index

\* Lines 108-111: the process dies inside update_acquisition_log after
\* open(log_path, 'w') has truncated the file and before the rows are all
\* flushed: any shorter prefix of the rows is on disk.
CrashInUpdate ==
    /\ WritesNext
    /\ \E k \in 0..(Len(NextData) - 1) :
        Crashed("update", SubSeq(NextData, 1, k), disk, NextIndex)

Next ==
    \/ Start
    \/ PrePopulate
    \/ NextChild
    \/ OpenDevice
    \/ StepBegin
    \/ SendTrigger
    \/ WaitStart
    \/ PollRound
    \/ WaitTimeout
    \/ ScanNext
    \/ ScanEnd
    \/ Probe
    \/ RecordCompleted
    \/ RecordTimeout
    \/ AskYes
    \/ AskNo
    \/ CancelNext
    \/ Finish
    \/ CameraCreate
    \/ CameraGrow

\* The synchronous run.
Init == Idle /\ plan \in RunPlans
Spec == Init /\ [][Next]_vars

\* The steps of the handler: every call it makes returns, the operator
\* answers every question.
Handler ==
    \/ PrePopulate
    \/ NextChild
    \/ OpenDevice
    \/ StepBegin
    \/ SendTrigger
    \/ WaitStart
    \/ PollRound
    \/ WaitTimeout
    \/ ScanNext
    \/ ScanEnd
    \/ Probe
    \/ RecordCompleted
    \/ RecordTimeout
    \/ AskYes
    \/ AskNo
    \/ CancelNext
    \/ Finish
SpecLive == Init /\ [][Next]_vars /\ WF_vars(Handler)

\* Every plan, expanded and pre-populated into the ledger.
NextPlan ==
    \/ Start
    \/ PrePopulate
    \/ NextChild
    \/ OpenDevice
SpecPlan == Idle /\ [][NextPlan]_vars

\* The synchronous run, with the process dying at any point.
NextCrash ==
    \/ Next
    \/ CrashBetween
    \/ CrashInUpdate
SpecCrash == Init /\ [][NextCrash]_vars

(* ------------------- update_acquisition_log on its own ---------------- *)
\* A ledger row of the harness.
HarnessRow(index, status) ==
    CsvRow(index, "500", index + 1, ExpectedName("500", index + 1),
           IF status = "completed" THEN "shot.bin" ELSE "", status,
           IF status = "completed" THEN 1 ELSE 0)

Distinct(q) == \A a, b \in 1..Len(q) : a # b => q[a] # q[b]
IndexOrders == {q \in SeqsUpTo(0..MaxIndex, MaxIndex + 1) : Distinct(q)}

\* The ledgers with a header: records of distinct indices in any order, with
\* gaps, of any status.
Ledgers ==
    UNION {{<<Header>> \o [k \in 1..Len(q) |-> HarnessRow(q[k], st[k])] :
              st \in [1..Len(q) -> Statuses]} : q \in IndexOrders}

InitUpsert ==
    /\ plan = <<>>
    /\ disk \in Ledgers
    /\ pc = "harness"
    /\ h = [phase |-> "start"]
    /\ Fresh
    /\ NoPost

\* One call of update_acquisition_log.
UpsertOnce ==
    /\ h.phase = "start"
    /\ \E index \in 0..MaxIndex, status \in Statuses :
        /\ disk' = UpdateRows(disk, index, HarnessRow(index, status))
        /\ h' = [phase |-> "once", index |-> index, status |-> status,
                 initial |-> disk, before |-> disk]
    /\ UNCHANGED <<postVars, resumeVars, plan, acquisition_log, pc, seqVars, folder, watchVars,
                   new_file, result, experiment_finished, trace, crash>>

\* A second call for the same index with another status.
UpsertTwice ==
    /\ h.phase = "once"
    /\ \E status \in Statuses \ {h.status} :
        /\ disk' = UpdateRows(disk, h.index, HarnessRow(h.index, status))
        /\ h' = [h EXCEPT !.phase = "twice", !.status = status, !.before = disk]
    /\ UNCHANGED <<postVars, resumeVars, plan, acquisition_log, pc, seqVars, folder, watchVars,
                   new_file, result, experiment_finished, trace, crash>>

NextUpsert ==
    \/ UpsertOnce
    \/ UpsertTwice
SpecUpsert == InitUpsert /\ [][NextUpsert]_vars

\* A run of one or two steps, with files of other kinds appearing in the
\* folder.
InitWatch == Init /\ Total(plan) <= 2
NextWatch ==
    \/ Next
    \/ StrayCreate
SpecWatch == InitWatch /\ [][NextWatch]_vars

(* ------------------------- calls that raise -------------------------- *)
\* What a call that raised has left, the rest as it was.
Raised(at, index) ==
    /\ crash' = [at |-> at, before |-> disk, index |-> index]
    /\ UNCHANGED <<postVars, resumeVars, plan, acquisition_log, seqVars, folder,
                   watchVars, new_file, result, experiment_finished, h>>

\* The error of the timeout write caught and passed over, the operator
\* asked as after a write.
UpsertFailsSwallowed ==
    /\ WritesNext
    /\ Raised("ioerror", NextIndex)
    /\ UNCHANGED <<disk, trace>>
    /\ pc' = IF pc = "decide" /\ ~Truthy(new_file) THEN "ask" ELSE "error"

\* Lines 90-93, 108-111: open() or the write raises inside
\* update_acquisition_log; nothing catches it, the exception leaves
\* execute_commands.  The file is as before, or truncated and written in
\* part.
UpsertFails ==
    /\ WritesNext
    /\ Raised("ioerror", NextIndex)
    /\ \E k \in 0..Len(NextData) - 1 :
          disk' \in {disk, SubSeq(NextData, 1, k)}
    /\ pc' = "error"
    /\ UNCHANGED trace

\* The error of the device call caught and passed over.
DeviceFailsSwallowed ==
    \/ /\ pc = "loop"
       /\ cur <= Len(acquisition_log)
       /\ trace' = Append(trace, Event("progress", Entry.index,
                                       StatusText(Entry, Len(acquisition_log))))
       /\ Raised("device", Entry.index)
       /\ pc' = "trigger"
       /\ UNCHANGED disk
    \/ /\ pc = "trigger"
       /\ Raised("device", Entry.index)
       /\ pc' = "wait"
       /\ UNCHANGED <<disk, trace>>

\* Line 730 or line 735 (send_trigger, 433-438) raises: the light source or
\* the serial port is unreachable or refuses the write; nothing catches it.
DeviceFails ==
    \/ /\ pc = "loop"
       /\ cur <= Len(acquisition_log)
       /\ trace' = Append(trace, Event("progress", Entry.index,
                                       StatusText(Entry, Len(acquisition_log))))
       /\ Raised("device", Entry.index)
       /\ pc' = "error"
       /\ UNCHANGED disk
    \/ /\ pc = "trigger"
       /\ Raised("device", Entry.index)
       /\ pc' = "error"
       /\ UNCHANGED <<disk, trace>>

\* The synchronous run with calls that raise.
NextError ==
    \/ Next
    \/ UpsertFails
    \/ DeviceFails
SpecError == Init /\ [][NextError]_vars

(* ----------------------- load_acquisition_from_csv ------------------- *)
\* csv.DictReader: the cell of a row under a name of the header row.
Field(d, row, name) ==
    LET c == CHOOSE k \in 1..Len(d[1]) : d[1][k] = name
    IN IF c <= Len(row) THEN row[c] ELSE None

\* The filter with the cancelled records left out.
IsIncompleteNoCancelled(status) == status \in {"pending", "timeout"}

\* Line 186: row['Status'] in ['pending', 'timeout', 'cancelled']
IsIncomplete(status) == status \in {"pending", "timeout", "cancelled"}

\* Lines 180-190: wavelength_dict after the rows from the i-th on, as the
\* keys in insertion order and the count of each key.
RECURSIVE GroupRows(_, _, _)
GroupRows(d, i, wavelength_dict) ==
    IF i > Len(d) THEN wavelength_dict
    ELSE IF d[i] # <<>> /\ IsIncomplete(Field(d, d[i], "Status"))
    THEN LET wavelength == Field(d, d[i], "Wavelength")
             known == wavelength \in DOMAIN wavelength_dict.count
             keys == IF known THEN wavelength_dict.keys
                     ELSE Append(wavelength_dict.keys, wavelength)
             count == [w \in DOMAIN wavelength_dict.count \cup {wavelength} |->
                          IF w = wavelength
                          THEN (IF known THEN wavelength_dict.count[w] ELSE 0) + 1
                          ELSE wavelength_dict.count[w]]
         IN GroupRows(d, i + 1, [keys |-> keys, count |-> count])
    ELSE GroupRows(d, i + 1, wavelength_dict)

EmptyDict == [keys |-> <<>>, count |-> [w \in {} |-> 0]]

\* Lines 193-195: one tree row for every key, in insertion order.
TreeRows(wavelength_dict) ==
    [k \in 1..Len(wavelength_dict.keys) |->
        [wavelength |-> wavelength_dict.keys[k],
         num_pictures |-> wavelength_dict.count[wavelength_dict.keys[k]]]]

\* Lines 193-201: the message box shown after the rows are inserted.
RECURSIVE SumValues(_, _)
SumValues(wavelength_dict, k) ==
    IF k = 0 THEN 0
    ELSE SumValues(wavelength_dict, k - 1) +
         wavelength_dict.count[wavelength_dict.keys[k]]
LoadMessage(wavelength_dict) ==
    IF wavelength_dict.keys # <<>>
    THEN [kind |-> "showinfo", title |-> "Success",
          loaded |-> SumValues(wavelength_dict, Len(wavelength_dict.keys)),
          wavelengths |-> Len(wavelength_dict.keys)]
    ELSE [kind |-> "showinfo", title |-> "No Incomplete Acquisitions",
          loaded |-> 0, wavelengths |-> 0]

\* The load without the loop of lines 176-177: the rows the tree held stay.
LoadAcquisitionKeepingRows ==
    /\ pc = "idle"
    /\ h.phase = "csv"
    /\ plan' = plan \o TreeRows(GroupRows(disk, 2, EmptyDict))
    /\ popup' = LoadMessage(GroupRows(disk, 2, EmptyDict))
    /\ h' = [phase |-> "loaded", initial |-> disk]
    /\ UNCHANGED <<arrays, loaded_cubes, selected_images, fileVars, resumeVars,
                   acquisition_log, disk, pc, seqVars, folder, watchVars, new_file,
                   result, experiment_finished, trace, crash>>

\* Lines 174-201: the tree is cleared and gets one row for every key; the
\* outcome is shown.  No device is addressed.
LoadAcquisition ==
    /\ pc = "idle"
    /\ h.phase = "csv"
    /\ plan' = TreeRows(GroupRows(disk, 2, EmptyDict))
    /\ popup' = LoadMessage(GroupRows(disk, 2, EmptyDict))
    /\ h' = [phase |-> "loaded", initial |-> disk]
    /\ UNCHANGED <<arrays, loaded_cubes, selected_images, fileVars, resumeVars,
                   acquisition_log, disk, pc, seqVars, folder, watchVars, new_file,
                   result, experiment_finished, trace, crash>>

\* The entries a plan expands into (the loops of lines 695-712).
RECURSIVE Expand(_)
Expand(p) ==
    IF p = <<>> THEN <<>>
    ELSE LET front == SubSeq(p, 1, Len(p) - 1)
             last == p[Len(p)]
         IN Expand(front) \o
            [i \in 1..last.num_pictures |->
                NewEntry(Total(front) + i - 1, last.wavelength, i)]

\* The ledgers a run leaves: the rows of an expanded plan, of any status.
LedgerRow(entry, status) ==
    CsvRow(entry.index, entry.wavelength, entry.pic_num, entry.expected_name,
           IF status = "completed" THEN NameText(ShotFile(entry.index)) ELSE "",
           status, IF status = "completed" THEN 1 ELSE 0)
RunLedgers ==
    UNION {{<<Header>> \o [k \in 1..Total(p) |-> LedgerRow(Expand(p)[k], st[k])] :
              st \in [1..Total(p) -> Statuses]} : p \in Plans}

\* A ledger file to select, the tree empty or holding a row.
InitLoad ==
    /\ plan \in {<<>>, <<[wavelength |-> "600", num_pictures |-> 1]>>}
    /\ disk \in RunLedgers
    /\ pc = "idle"
    /\ h = [phase |-> "csv"]
    /\ Fresh
    /\ NoPost
NextLoad == LoadAcquisition
SpecLoad == InitLoad /\ [][NextLoad]_vars

\* A ledger is loaded into the tree and the run is started from the tree.
NextReload ==
    \/ LoadAcquisition
    \/ Start
    \/ PrePopulate
    \/ NextChild
    \/ OpenDevice
SpecReload == InitLoad /\ [][NextReload]_vars

(* ------------------------------ resumed run -------------------------- *)
\* resume_from_log, called at line 831 and defined nowhere in the source:
\* the grouped pairs of the selected ledger become the plan, expanded as a
\* fresh plan is, without the pre-population; the ledger stays the selected
\* one.
ResumeFromLog ==
    /\ pc = "idle"
    /\ h.phase = "csv"
    /\ LET rows == TreeRows(GroupRows(disk, 2, EmptyDict)) IN
        /\ rows # <<>>
        /\ plan' = rows
        /\ acquisition_log' = Expand(rows)
    /\ h' = [phase |-> "resumed", initial |-> disk]
    /\ pc' = "resumed"
    /\ UNCHANGED <<postVars, resumeVars, disk, seqVars, folder, watchVars, new_file,
                   result, experiment_finished, trace, crash>>

\* Lines 847-856: the flag is cleared, the background worker started, the
\* light source opened.
ResumedStart ==
    /\ pc = "resumed"
    /\ stop_monitoring' = FALSE
    /\ monitoring_thread' =
          [state |-> "running", seen |-> Listing, cand |-> None, size |-> 0]
    /\ cur' = 1
    /\ pc' = "rloop"
    /\ UNCHANGED <<postVars, plan, acquisition_log, disk, child, pic, acquisition_index,
                   rem, folder, watchVars, new_file, result,
                   experiment_finished, trace, crash, h,
                   current_acquisition_index>>

\* f"Acquiring: {wavelength}nm #{pic_num} ({i + 1}/{len(acquisition_log)})"
ResumedStatusText(entry, i, total) ==
    "Acquiring: " \o entry.wavelength \o "nm #" \o ToString(entry.pic_num)
        \o " (" \o ToString(i + 1) \o "/" \o ToString(total) \o ")"

\* Lines 859-867: progress label, then gowave and the settling sleep.
ResumedStep ==
    /\ pc = "rloop"
    /\ cur <= Len(acquisition_log)
    /\ trace' = trace \o
          <<Event("progress", Entry.index,
                  ResumedStatusText(Entry, cur - 1, Len(acquisition_log))),
            Event("gowave", Entry.index, Entry.wavelength)>>
    /\ pc' = "rtrigger"
    /\ UNCHANGED <<postVars, resumeVars, plan, acquisition_log, disk, seqVars, folder,
                   watchVars, new_file, result, experiment_finished, crash, h>>

\* Lines 869-872: the trigger, then the index of the step is published.
ResumedTrigger ==
    /\ pc = "rtrigger"
    /\ trace' = Append(trace, Event("trigger", Entry.index, "trigger"))
    /\ current_acquisition_index' = cur - 1
    /\ pc' = "rsleep"
    /\ UNCHANGED <<postVars, plan, acquisition_log, disk, seqVars, folder, watchVars,
                   new_file, result, experiment_finished, crash, h,
                   stop_monitoring, monitoring_thread>>

\* Line 873: the fixed sleep is over, the for loop goes on.
ResumedSleep ==
    /\ pc = "rsleep"
    /\ cur' = cur + 1
    /\ pc' = "rloop"
    /\ UNCHANGED <<postVars, resumeVars, plan, acquisition_log, disk, child, pic,
                   acquisition_index, rem, folder, watchVars, new_file, result,
                   experiment_finished, trace, crash, h>>

\* Lines 875-880: the for loop is exhausted.
ResumedFinish ==
    /\ pc = "rloop"
    /\ cur > Len(acquisition_log)
    /\ experiment_finished' = TRUE
    /\ stop_monitoring' = TRUE
    /\ pc' = "finished"
    /\ UNCHANGED <<postVars, plan, acquisition_log, disk, seqVars, folder, watchVars,
                   new_file, result, trace, crash, h,
                   current_acquisition_index, monitoring_thread>>

\* monitor_raw_files, the target of the thread of line 850, defined nowhere
\* in the source: the watcher's polling on a background worker, which reads
\* the index the command loop published, writes the ledger and leaves its
\* loop when the flag is set.
MonitorPoll ==
    /\ monitoring_thread.state = "running"
    /\ ~stop_monitoring
    /\ monitoring_thread.cand = None
    /\ \E f \in NewFiles(Listing, monitoring_thread.seen) :
        /\ EndsWithBin(f)
        /\ monitoring_thread' =
              [monitoring_thread EXCEPT !.cand = f, !.size = folder[f]]
    /\ UNCHANGED <<postVars, plan, acquisition_log, disk, pc, seqVars, folder, watchVars,
                   new_file, result, experiment_finished, trace, crash, h,
                   stop_monitoring, current_acquisition_index>>

MonitorProbe ==
    /\ monitoring_thread.state = "running"
    /\ monitoring_thread.cand # None
    /\ LET f == monitoring_thread.cand
           accepted == /\ Stable(monitoring_thread.size, folder[f])
                       /\ current_acquisition_index >= 0
           entry == acquisition_log[current_acquisition_index + 1]
       IN IF accepted
          THEN /\ disk' = UpdateEntry(disk, entry, NameText(f), "completed", folder[f])
               /\ trace' = Append(trace, Event("upsert", entry.index, "completed"))
               /\ monitoring_thread' =
                     [monitoring_thread EXCEPT !.cand = None, !.size = 0,
                                               !.seen = @ \cup {f}]
          ELSE /\ monitoring_thread' =
                     [monitoring_thread EXCEPT !.cand = None, !.size = 0]
               /\ UNCHANGED <<disk, trace>>
    /\ UNCHANGED <<postVars, plan, acquisition_log, pc, seqVars, folder, watchVars,
                   new_file, result, experiment_finished, crash, h,
                   stop_monitoring, current_acquisition_index>>

MonitorExit ==
    /\ monitoring_thread.state = "running"
    /\ stop_monitoring
    /\ monitoring_thread.cand = None
    /\ monitoring_thread' = [state |-> "exited"]
    /\ UNCHANGED <<postVars, plan, acquisition_log, disk, pc, seqVars, folder, watchVars,
                   new_file, result, experiment_finished, trace, crash, h,
                   stop_monitoring, current_acquisition_index>>

\* The run-level cancellation is requested while the resumed loop runs; no
\* statement of the source sets the flag before line 876.
RequestCancel ==
    /\ pc \in {"rloop", "rtrigger", "rsleep"}
    /\ ~stop_monitoring
    /\ stop_monitoring' = TRUE
    /\ UNCHANGED <<postVars, plan, acquisition_log, disk, pc, seqVars, folder, watchVars,
                   new_file, result, experiment_finished, trace, crash, h,
                   current_acquisition_index, monitoring_thread>>

\* The ledger selected for a resumed run: the header and fewer than MaxSteps
\* records.
InitResumed == InitLoad /\ plan = <<>> /\ Len(disk) <= MaxSteps
NextResumed ==
    \/ ResumeFromLog
    \/ ResumedStart
    \/ ResumedStep
    \/ ResumedTrigger
    \/ ResumedSleep
    \/ ResumedFinish
    \/ MonitorPoll
    \/ MonitorProbe
    \/ MonitorExit
    \/ CameraCreate
    \/ CameraGrow
SpecResumed == InitResumed /\ [][NextResumed]_vars

\* The resumed run with the cancellation requested at any time.
NextCancel ==
    \/ NextResumed
    \/ RequestCancel
SpecCancel == InitResumed /\ [][NextCancel]_vars

(* ------------------ a raw data folder without new raw files ---------- *)
\* A raw file that is in the folder before the run.
OldFile == <<"old", ".bin">>

\* Lines 148-150: listing the folder raises, the error is logged and the
\* loop sleeps as long as after a round.
PollError ==
    /\ pc = "poll"
    /\ elapsed < FileTimeout
    /\ elapsed' = elapsed + PollInterval
    /\ UNCHANGED <<postVars, resumeVars, plan, acquisition_log, disk, pc, seqVars, folder,
                   initial_files, new_files, cand, file_size, new_file, result,
                   experiment_finished, trace, crash, h>>

InitQuiet ==
    /\ plan \in RunPlans
    /\ disk = <<>>
    /\ pc = "idle"
    /\ h = NoHarness
    /\ acquisition_log = <<>>
    /\ child = 1 /\ pic = 1 /\ acquisition_index = 0
    /\ cur = 1 /\ rem = 1
    /\ folder \in {[f \in {} |-> 0], [f \in {OldFile} |-> 1]}
    /\ initial_files = {} /\ elapsed = 0 /\ new_files = {}
    /\ cand = None /\ file_size = 0
    /\ new_file = None
    /\ result = TRUE
    /\ experiment_finished = FALSE
    /\ trace = <<>>
    /\ crash = NoCrash
    /\ stop_monitoring = FALSE
    /\ current_acquisition_index = -1
    /\ monitoring_thread = NoThread
    /\ NoPost

\* The steps of the handler when the camera writes nothing.
HandlerQuiet ==
    \/ PrePopulate
    \/ NextChild
    \/ OpenDevice
    \/ StepBegin
    \/ SendTrigger
    \/ WaitStart
    \/ PollRound
    \/ PollError
    \/ WaitTimeout
    \/ ScanNext
    \/ ScanEnd
    \/ RecordTimeout
    \/ AskYes
    \/ AskNo
    \/ CancelNext
    \/ Finish
NextQuiet ==
    \/ Start
    \/ HandlerQuiet
    \/ StrayCreate
SpecQuiet == InitQuiet /\ [][NextQuiet]_vars /\ WF_vars(HandlerQuiet)

(* --------------------------- the cube aggregator ---------------------- *)
\* A numeric array in memory: its shape and its elements, band by band.
\* loaded_cubes holds the address of each cube's array, as a Python list
\* holds a reference: two names of one address are one array.
Array(data) == [shape |-> <<1, 1, Len(data)>>, data |-> data]
\* The value of a pixel's first band in the files the camera software saved.
Elements == {1, 2}
\* The array of a saved cube: the bands of one pixel.
CubeData(first, bands) == Array([b \in 1..bands |-> first + b - 1])
CubeArrays == {CubeData(v, n) : v \in Elements, n \in 1..MaxBands}
\* The header of the cube loaded at that position: every cube has its own.
Metadata(k) == [description |-> "cube" \o ToString(k)]

\* Line 296: the tuple process_folder appends for the cube at that address.
LoadedCube(k) ==
    [cube |-> k, metadata |-> Metadata(k), wavelength |-> "500", i |-> ToString(k)]

\* Lines 987-993: the checkbox of a cube is ticked or unticked (while the
\* session has a combine operation left).
ToggleImageSelection ==
    /\ pc = "cubes"
    /\ h.left > 0
    /\ \E index \in 1..Len(loaded_cubes) :
        selected_images' =
            IF \E p \in 1..Len(selected_images) : selected_images[p] = index
            THEN SelectSeq(selected_images, LAMBDA x : x # index)
            ELSE Append(selected_images, index)
    /\ UNCHANGED <<runVars, fileVars, arrays, loaded_cubes, popup>>

\* combined_cube += cube_data: numpy adds into the array of the left name.
AddInto(acc, cube_data) ==
    [acc EXCEPT !.data = [b \in 1..Len(acc.data) |-> acc.data[b] + cube_data.data[b]]]

\* Lines 453-465: the for loop of sum_selected_cubes from position k of the
\* selection on; combined_cube is an address, 0 for None.  The assert of
\* line 464 raises when the shapes differ, and the loop is left.
RECURSIVE SumLoop(_, _, _, _)
SumLoop(mem, sel, k, combined_cube) ==
    IF k > Len(sel)
    THEN [arrays |-> mem, combined_cube |-> combined_cube, raised |-> FALSE]
    ELSE LET cube_data == loaded_cubes[sel[k]].cube IN
         IF combined_cube = 0
         THEN SumLoop(mem, sel, k + 1, cube_data)
         ELSE IF mem[combined_cube].shape # mem[cube_data].shape
              THEN [arrays |-> mem, combined_cube |-> combined_cube, raised |-> TRUE]
              ELSE SumLoop([mem EXCEPT ![combined_cube] = AddInto(@, mem[cube_data])],
                           sel, k + 1, combined_cube)

\* The header of the cube the loop took last.
LastHdrMetadata(sel) == loaded_cubes[sel[Len(sel)]].metadata
\* Lines 459-461 and 495-497: the header kept is that of the first cube.
FirstHdrMetadata(sel) == loaded_cubes[sel[1]].metadata

SummedRgbImage == "summed_rgb_image.png"
AveragedRgbImage == "averaged_rgb_image.png"
\* spy.save_rgb(path, cube, rgb_bands): a picture rendered from the cube.
RgbImage(cube) == [kind |-> "png", of |-> cube.data]
\* The directory with one more entry, or one entry replaced.
Write(dir, name, entry) ==
    [n \in DOMAIN dir \cup {name} |-> IF n = name THEN entry ELSE dir[n]]

\* What a handler that raised leaves for its popup: nothing is shown, the
\* exception goes to the event loop.
Raises(error, sel) == [kind |-> "raised", error |-> error, selection |-> sel]

\* sum_selected_cubes (444-476).
SumSelectedCubes ==
    /\ pc = "cubes"
    /\ h.left > 0
    /\ h' = [h EXCEPT !.left = @ - 1]
    /\ IF selected_images = <<>>
       THEN /\ popup' = [kind |-> "showerror", selection |-> selected_images]
            /\ UNCHANGED <<arrays, saved_images>>
       ELSE LET r == SumLoop(arrays, selected_images, 1, 0) IN
            /\ arrays' = r.arrays
            /\ IF r.raised
               THEN /\ popup' = Raises("AssertionError", selected_images)
                    /\ UNCHANGED saved_images
               ELSE /\ saved_images' =
                        Write(saved_images, SummedRgbImage,
                              RgbImage(r.arrays[r.combined_cube]))
                    /\ popup' = [kind |-> "sum", cube |-> r.combined_cube,
                                 metadata |-> FirstHdrMetadata(selected_images),
                                 selection |-> selected_images]
    /\ UNCHANGED <<plan, acquisition_log, disk, pc, seqVars, folder, watchVars,
                   new_file, result, experiment_finished, trace, crash,
                   resumeVars, loaded_cubes, selected_images, before_snapshot,
                   output_dir, now, project_window>>

RECURSIVE Gcd(_, _)
Gcd(a, b) == IF b = 0 THEN a ELSE Gcd(b, a % b)
\* The division that keeps the whole part only.
DivideFloor(x, cube_count) == <<x \div cube_count, 1>>
\* x / cube_count (line 507), numpy's true division: the quotient as a
\* fraction <<numerator, denominator>> in lowest terms.
Divide(x, cube_count) ==
    <<x \div Gcd(x, cube_count), cube_count \div Gcd(x, cube_count)>>

\* Lines 489-503: the for loop of average_selected_cubes; the accumulator is
\* a copy of the first cube, at a new address.
RECURSIVE AverageLoop(_, _, _, _)
AverageLoop(mem, sel, k, combined_cube) ==
    IF k > Len(sel)
    THEN [arrays |-> mem, combined_cube |-> combined_cube, raised |-> FALSE]
    ELSE LET cube_data == loaded_cubes[sel[k]].cube IN
         IF combined_cube = 0
         THEN AverageLoop(Append(mem, mem[cube_data]), sel, k + 1, Len(mem) + 1)
         ELSE IF mem[combined_cube].shape # mem[cube_data].shape
              THEN [arrays |-> mem, combined_cube |-> combined_cube, raised |-> TRUE]
              ELSE AverageLoop([mem EXCEPT ![combined_cube] = AddInto(@, mem[cube_data])],
                               sel, k + 1, combined_cube)

\* Line 507: combined_cube / cube_count is a new array and the name is bound
\* to it; the accumulator, which nothing else names, is gone, and the
\* quotient is kept at its address.
Averaged(mem, combined_cube, cube_count) ==
    [mem EXCEPT ![combined_cube].data =
        [b \in 1..Len(@) |-> Divide(@[b], cube_count)]]

\* average_selected_cubes (479-517).
AverageSelectedCubes ==
    /\ pc = "cubes"
    /\ h.left > 0
    /\ h' = [h EXCEPT !.left = @ - 1]
    /\ IF selected_images = <<>>
       THEN /\ popup' = [kind |-> "showerror", selection |-> selected_images]
            /\ UNCHANGED <<arrays, saved_images>>
       ELSE LET r == AverageLoop(arrays, selected_images, 1, 0)
                cube_count == Len(selected_images)
            IN
            IF r.raised
            THEN /\ arrays' = r.arrays
                 /\ popup' = Raises("AssertionError", selected_images)
                 /\ UNCHANGED saved_images
            ELSE /\ arrays' = Averaged(r.arrays, r.combined_cube, cube_count)
                 /\ saved_images' =
                        Write(saved_images, AveragedRgbImage,
                              RgbImage(arrays'[r.combined_cube]))
                 /\ popup' = [kind |-> "average", cube |-> r.combined_cube,
                              metadata |-> FirstHdrMetadata(selected_images),
                              selection |-> selected_images]
    /\ UNCHANGED <<plan, acquisition_log, disk, pc, seqVars, folder, watchVars,
                   new_file, result, experiment_finished, trace, crash,
                   resumeVars, loaded_cubes, selected_images, before_snapshot,
                   output_dir, now, project_window>>

\* The processing tab after process_folder has loaded a folder of cubes
\* (lines 239-296): every cube at its own address, nothing selected.  h
\* keeps the elements as they were loaded and the number of combine
\* operations the session still has.
Loaded(left) ==
    /\ plan = <<>>
    /\ disk = <<>>
    /\ pc = "cubes"
    /\ Fresh
    /\ arrays \in [1..MaxCubes -> CubeArrays]
    /\ loaded_cubes = [k \in 1..MaxCubes |-> LoadedCube(k)]
    /\ h = [phase |-> "cubes", loaded |-> [k \in 1..MaxCubes |-> arrays[k].data],
            left |-> left]
    /\ selected_images = <<>>
    /\ popup = NoPopup
    /\ saved_images = EmptyDir
    /\ before_snapshot = {}
    /\ output_dir = EmptyDir
    /\ now = 0
    /\ project_window = NoWindow
NextCubes ==
    \/ ToggleImageSelection
    \/ SumSelectedCubes
    \/ AverageSelectedCubes
\* A session of several combine operations.
InitCubes == Loaded(MaxCombines)
SpecCubes == InitCubes /\ [][NextCubes]_vars
\* One combine operation on any selection of any loaded cubes.
InitCombine == Loaded(1)
SpecCombine == InitCombine /\ [][NextCubes]_vars

(* ------------- process_results and the per-wavelength combine -------- *)
\* A name of a directory entry is kept as the sequence of the parts that
\* split('_') gives; an f-string with '_' between its fields makes one.
Parts(name) == name
\* datetime.now().strftime("%m-%d")
DateStr == "06-12"

\* A folder the camera software saved in SAVED_IMAGES_DIRECTORY: the cube of
\* one shot with its header, and the time of its last modification.
SavedFolder(mtime, cube, metadata) ==
    [kind |-> "folder", mtime |-> mtime, cube |-> cube, metadata |-> metadata]

\* sort_folders_by_modification (62-65): the names by their modification time.
RECURSIVE SortFoldersByModification(_)
SortFoldersByModification(folders) ==
    IF folders = {} THEN <<>>
    ELSE LET first == CHOOSE f \in folders :
                        \A g \in folders : saved_images[f].mtime <= saved_images[g].mtime
         IN <<first>> \o SortFoldersByModification(folders \ {first})

\* Lines 523-530: wavelength_dict after the folders from the i-th on, as the
\* keys in insertion order and the list of each key.  parts[2] is the third
\* part; a name of fewer than three parts is passed over.
RECURSIVE GroupFolders(_, _, _)
GroupFolders(folders, i, wavelength_dict) ==
    IF i > Len(folders) THEN wavelength_dict
    ELSE LET parts == Parts(folders[i]) IN
         IF Len(parts) >= 3
         THEN LET wavelength == parts[3]
                  known == wavelength \in DOMAIN wavelength_dict.folders
                  keys == IF known THEN wavelength_dict.keys
                          ELSE Append(wavelength_dict.keys, wavelength)
                  lists == [w \in DOMAIN wavelength_dict.folders \cup {wavelength} |->
                              IF w = wavelength
                              THEN (IF known THEN wavelength_dict.folders[w] ELSE <<>>)
                                       \o <<folders[i]>>
                              ELSE wavelength_dict.folders[w]]
              IN GroupFolders(folders, i + 1, [keys |-> keys, folders |-> lists])
         ELSE GroupFolders(folders, i + 1, wavelength_dict)

NoFolders == [keys |-> <<>>, folders |-> [w \in {} |-> <<>>]]

\* Lines 536-550: the inner loop over the folders of one wavelength from the
\* k-th on; every cube is loaded from its files into an array of its own.
RECURSIVE CombineFolders(_, _, _)
CombineFolders(folders, k, combined_cube) ==
    IF k > Len(folders)
    THEN [combined_cube |-> combined_cube, raised |-> FALSE, at |-> <<>>]
    ELSE LET cube_data == saved_images[folders[k]].cube IN
         IF k = 1 THEN CombineFolders(folders, 2, cube_data)
         ELSE IF combined_cube.shape # cube_data.shape
              THEN [combined_cube |-> combined_cube, raised |-> TRUE, at |-> folders[k]]
              ELSE CombineFolders(folders, k + 1, AddInto(combined_cube, cube_data))

\* f'{project_name}_{date_str}_{wavelength}_combined.png' and ..._union.hdr
CombinedName(wavelength) == <<ProjectName, DateStr, wavelength, "combined.png">>
UnionName(wavelength) == <<ProjectName, DateStr, wavelength, "union.hdr">>
\* envi.save_image(path, cube, metadata=..., force=True)
EnviImage(cube, metadata) == [kind |-> "envi", of |-> cube.data, metadata |-> metadata]

\* The header of the last folder of the group.
GroupMetadataLast(folders) == saved_images[folders[Len(folders)]].metadata
\* Lines 543-544: the header of the first folder of the group.
GroupMetadata(folders) == saved_images[folders[1]].metadata

\* Lines 532-559: the outer loop from the g-th wavelength on, dir the output
\* directory so far.  The assert of line 549 leaves the function.
RECURSIVE AddCubes(_, _, _)
AddCubes(wavelength_dict, g, dir) ==
    IF g > Len(wavelength_dict.keys)
    THEN [output_dir |-> dir, raised |-> FALSE, at |-> <<>>]
    ELSE LET wavelength == wavelength_dict.keys[g]
             folders == wavelength_dict.folders[wavelength]
             r == CombineFolders(folders, 1, Array(<<>>))
         IN IF r.raised
            THEN [output_dir |-> dir, raised |-> TRUE, at |-> r.at]
            ELSE AddCubes(wavelength_dict, g + 1,
                     Write(Write(dir, CombinedName(wavelength), RgbImage(r.combined_cube)),
                           UnionName(wavelength),
                           EnviImage(r.combined_cube, GroupMetadata(folders))))

\* add_cubes_for_same_wavelength (520-559).
AddCubesForSameWavelength(folders) ==
    AddCubes(GroupFolders(folders, 1, NoFolders), 1, output_dir)

\* process_results (883-903): the new folders of the run are counted
\* against the tree; the project window is opened (1342-1356, it does not
\* wait) and the cubes of every wavelength are combined.  The handler runs
\* when no other handler does, after a run that returned or that an
\* exception left; line 884 reads the flag and nothing else.
ProcessResults ==
    /\ pc \in {"finished", "error"}
    /\ experiment_finished
    /\ LET new_folders_sorted ==
               SortFoldersByModification(DOMAIN saved_images \ before_snapshot)
           total_pictures == Total(plan)
       IN IF Len(new_folders_sorted) = total_pictures
          THEN LET r == AddCubesForSameWavelength(new_folders_sorted) IN
               /\ project_window' = [state |-> "open", folders |-> new_folders_sorted]
               /\ output_dir' = r.output_dir
               /\ popup' = IF r.raised THEN Raises("AssertionError", r.at)
                           ELSE [kind |-> "batch", selection |-> new_folders_sorted]
          ELSE /\ popup' = [kind |-> "showerror", selection |-> new_folders_sorted]
               /\ UNCHANGED <<project_window, output_dir>>
    /\ pc' = "processed"
    /\ UNCHANGED <<plan, acquisition_log, disk, seqVars, folder, watchVars,
                   new_file, result, experiment_finished, trace, crash, h,
                   resumeVars, arrays, loaded_cubes, selected_images,
                   saved_images, before_snapshot, now>>

(* ---------------------- rename_and_copy_folders ---------------------- *)
\* The files of a saved cube: its header and its raster.
CubeFiles == {"spectral_image_processed_image.hdr", "spectral_image_processed_image.bin"}
\* A folder of the output directory made by shutil.copytree: the folder it
\* was copied from and the files that have arrived.
CopiedFolder(old_folder, files) == [kind |-> "copy", of |-> old_folder, files |-> files]
\* f"{project_name}_{date_str}_{wavelength}_{i}"
NewName(wavelength, i) == <<ProjectName, DateStr, wavelength, ToString(i)>>

\* Lines 1363-1375: the loops from the entry at current_index on (entries is
\* the tree expanded row by row, 1-based here).  shutil.copytree makes the
\* new folder and copies file after file: it raises when the new folder
\* exists already, and when a file cannot be copied, the files copied so far
\* left in place.  failing is the position of the folder whose copy fails (0
\* for none) and arrived the files copied before the failure.
RECURSIVE CopyFolders(_, _, _, _, _, _)
CopyFolders(entries, new_folders_sorted, current_index, dir, failing, arrived) ==
    IF current_index > Len(entries)
    THEN [output_dir |-> dir, raised |-> "", at |-> 0]
    ELSE LET new_name == NewName(entries[current_index].wavelength,
                                 entries[current_index].pic_num)
             old_folder == new_folders_sorted[current_index]
         IN IF new_name \in DOMAIN dir
            THEN [output_dir |-> dir, raised |-> "FileExistsError", at |-> current_index]
            ELSE IF current_index = failing
            THEN [output_dir |-> Write(dir, new_name, CopiedFolder(old_folder, arrived)),
                  raised |-> "Error", at |-> current_index]
            ELSE CopyFolders(entries, new_folders_sorted, current_index + 1,
                             Write(dir, new_name, CopiedFolder(old_folder, CubeFiles)),
                             failing, arrived)

\* save_project_info (1326-1340) with rename_and_copy_folders (1359-1377):
\* the operator saves the project window.  An exception leaves the handler
\* with the window open; otherwise the success is shown and the window
\* destroyed.
SaveProjectInfo ==
    /\ pc = "processed"
    /\ project_window.state = "open"
    /\ \E failing \in 0..Len(project_window.folders) :
       \E arrived \in (SUBSET CubeFiles) \ {CubeFiles} :
        LET r == CopyFolders(Expand(plan), project_window.folders, 1,
                             output_dir, failing, arrived)
        IN /\ output_dir' = r.output_dir
           /\ IF r.raised # ""
              THEN /\ project_window' = [project_window EXCEPT !.state = "failed"]
                   /\ popup' = Raises(r.raised, r.at)
              ELSE /\ project_window' = [project_window EXCEPT !.state = "destroyed"]
                   /\ popup' = [kind |-> "showinfo",
                                selection |-> project_window.folders]
    /\ UNCHANGED <<runVars, arrays, loaded_cubes, selected_images,
                   saved_images, before_snapshot, now>>

(* ----------------------- the end of a finished run ------------------- *)
\* The names the camera software gives the folder of a shot: it does not
\* know the plan.  A name of two parts, or one of four parts with the text
\* of a wavelength as its third.
NameKinds == {"short"} \cup Wavelengths
FolderName(k, kind) ==
    IF kind = "short" THEN <<"scan", ToString(k)>>
    ELSE <<"GE", "0612", kind, ToString(k)>>

\* The ledger of a run of which every step completed.
CompletedLedger(p) ==
    <<Header>> \o [k \in 1..Total(p) |-> LedgerRow(Expand(p)[k], "completed")]

\* execute_commands has returned (lines 793-797) for a plan of which every
\* step is completed; the camera software has saved the cube of every shot,
\* or of every shot but the last, in the order of the shots.  The raw data
\* folder and the history of the run are left out.
InitFinished ==
    /\ plan \in Plans /\ Total(plan) >= 1
    /\ acquisition_log = Expand(plan)
    /\ disk = CompletedLedger(plan)
    /\ pc = "finished"
    /\ h = NoHarness
    /\ child = Len(plan) + 1 /\ pic = 1 /\ acquisition_index = Total(plan)
    /\ cur = Total(plan) + 1 /\ rem = 1
    /\ folder = [f \in {} |-> 0]
    /\ initial_files = {} /\ elapsed = 0 /\ new_files = {}
    /\ cand = None /\ file_size = 0
    /\ new_file = None
    /\ result = TRUE
    /\ experiment_finished = TRUE
    /\ trace = <<>>
    /\ crash = NoCrash
    /\ stop_monitoring = FALSE
    /\ current_acquisition_index = -1
    /\ monitoring_thread = NoThread
    /\ arrays = <<>> /\ loaded_cubes = <<>> /\ selected_images = <<>>
    /\ popup = NoPopup
    /\ before_snapshot = {}
    /\ output_dir = EmptyDir
    /\ now = 0
    /\ project_window = NoWindow
    /\ \E n \in {Total(plan) - 1, Total(plan)} :
       \E kind \in [0..n - 1 -> NameKinds], bands \in [0..n - 1 -> 1..MaxBands] :
        saved_images =
            [f \in {FolderName(k, kind[k]) : k \in 0..n - 1} |->
                LET k == CHOOSE j \in 0..n - 1 : FolderName(j, kind[j]) = f
                IN SavedFolder(k, CubeData(1 + (k % 2), bands[k]), Metadata(k))]
NextProcess ==
    \/ ProcessResults
    \/ SaveProjectInfo
SpecProcess == InitFinished /\ [][NextProcess]_vars

\* One combine operation of the cube aggregator: on a selection of the
\* processing tab, or on the folders of a finished run.
InitAggregate == InitCombine \/ InitFinished
NextAggregate ==
    \/ ToggleImageSelection
    \/ SumSelectedCubes
    \/ AverageSelectedCubes
    \/ ProcessResults
SpecAggregate == InitAggregate /\ [][NextAggregate]_vars

(* ---------------------- the ledger files of several runs ------------- *)
\* now is the wall clock as datetime.now() reads it, in whole seconds:
\* strftime("%Y%m%d_%H%M%S") of line 70 keeps no more.  The clock is local
\* time: it advances, and it is set back when daylight saving time ends or
\* when it is corrected.
TimestampText(t) == "t" \o ToString(t)
\* f"acquisition_log_{project_name}_{timestamp}.csv"
LogFilename(t) == <<"acquisition", "log", ProjectName, TimestampText(t) \o ".csv">>
\* A ledger file of the output directory.
LogFile(rows) == [kind |-> "csv", rows |-> rows]

\* The tree is edited between two runs (add_row, delete_row): no row, or one.
EditTree ==
    /\ pc = "idle"
    /\ h.phase = "ledgers"
    /\ plan' \in {<<>>, <<[wavelength |-> "500", num_pictures |-> 1]>>}
    /\ plan' # plan
    /\ UNCHANGED <<postVars, resumeVars, acquisition_log, disk, pc, seqVars, folder,
                   watchVars, new_file, result, experiment_finished, trace, crash, h>>

\* Lines 688-692 with create_acquisition_log_file (68-79): project_name and
\* output_path are those of the run before; open(log_path, 'w') makes the
\* file or empties the one of that name, and the header is written.
CreateAcquisitionLogFile ==
    /\ pc = "idle"
    /\ h.phase = "ledgers"
    /\ Len(h.created) < MaxRuns
    /\ LET log_filename == LogFilename(now) IN
        /\ output_dir' = Write(output_dir, log_filename, LogFile(<<Header>>))
        /\ h' = [h EXCEPT !.acquisition_log_path = log_filename,
                          !.created = Append(@, log_filename),
                          !.before = Append(@, output_dir)]
    /\ acquisition_log' = <<>>
    /\ disk' = <<Header>>
    /\ pc' = "run"
    /\ UNCHANGED <<cubeVars, saved_images, before_snapshot, now, project_window,
                   resumeVars, plan, seqVars, folder, watchVars, new_file, result,
                   experiment_finished, trace, crash>>

\* Lines 696-757 for a plan of one step: the step is recorded as pending and,
\* after the sleeps of the step (5 s and 2 s at least), as completed; the
\* wall clock has advanced.
RunOneStep ==
    /\ pc = "run"
    /\ plan # <<>>
    /\ now < MaxTime
    /\ LET entry == NewEntry(0, plan[1].wavelength, 1)
           rows == UpdateEntry(UpdateEntry(disk, entry, "", "pending", 0),
                               entry, NameText(ShotFile(0)), "completed", 1)
       IN /\ acquisition_log' = <<entry>>
          /\ disk' = rows
          /\ output_dir' = Write(output_dir, h.acquisition_log_path, LogFile(rows))
    /\ now' = now + 1
    /\ pc' = "ran"
    /\ UNCHANGED <<cubeVars, saved_images, before_snapshot, project_window,
                   resumeVars, plan, seqVars, folder, watchVars, new_file, result,
                   experiment_finished, trace, crash, h>>

\* Lines 793-797: the handler returns, at once when the tree has no row.
RunReturns ==
    /\ \/ pc = "run" /\ plan = <<>>
       \/ pc = "ran"
    /\ experiment_finished' = TRUE
    /\ pc' = "idle"
    /\ UNCHANGED <<postVars, resumeVars, plan, acquisition_log, disk, seqVars, folder,
                   watchVars, new_file, result, trace, crash, h>>

\* A second passes between two handlers.
Tick ==
    /\ pc = "idle"
    /\ h.phase = "ledgers"
    /\ now < MaxTime
    /\ now' = now + 1
    /\ UNCHANGED <<runVars, cubeVars, saved_images, before_snapshot, output_dir,
                   project_window>>

\* The wall clock is set back between two handlers.
ClockSetBack ==
    /\ pc = "idle"
    /\ h.phase = "ledgers"
    /\ now > 0
    /\ now' \in 0..now - 1
    /\ UNCHANGED <<runVars, cubeVars, saved_images, before_snapshot, output_dir,
                   project_window>>

\* The program with project_name and output_path set, before its first run;
\* h keeps the names of the ledgers created and the directory before each.
InitLedgers ==
    /\ plan \in {<<>>, <<[wavelength |-> "500", num_pictures |-> 1]>>}
    /\ disk = <<>>
    /\ pc = "idle"
    /\ h = [phase |-> "ledgers", acquisition_log_path |-> <<>>, created |-> <<>>,
            before |-> <<>>]
    /\ Fresh
    /\ NoPost
NextLedgers ==
    \/ EditTree
    \/ CreateAcquisitionLogFile
    \/ RunOneStep
    \/ RunReturns
    \/ Tick
    \/ ClockSetBack
SpecLedgers == InitLedgers /\ [][NextLedgers]_vars

(* ------------------- I/O errors inside wait_for_new_file ------------- *)
\* Line 120: os.listdir raises while the baseline is taken.  The call is
\* before the try of line 127: the exception leaves wait_for_new_file and
\* execute_commands.
BaselineListingFails ==
    /\ pc = "wait"
    /\ Raised("listdir", Entry.index)
    /\ pc' = "error"
    /\ UNCHANGED <<disk, trace>>

\* Line 134 or line 140: os.path.getsize of a new .bin file raises, at the
\* first read or at the read after the stability sleep.  Lines 148-150 log
\* the error and sleep a poll interval; the loop of line 126 goes on.
SizeError ==
    /\ \/ /\ pc = "scan"
          /\ \E f \in new_files : EndsWithBin(f)
          /\ elapsed' = elapsed + PollInterval
       \/ /\ pc = "probe"
          /\ elapsed' = elapsed + StabilityWindow + PollInterval
    /\ pc' = "poll"
    /\ UNCHANGED <<postVars, resumeVars, plan, acquisition_log, disk, seqVars, folder,
                   initial_files, new_files, cand, file_size, new_file, result,
                   experiment_finished, trace, crash, h>>

\* The run of one or two steps with I/O errors in the watcher.
NextFaulty ==
    \/ Next
    \/ PollError
    \/ SizeError
    \/ BaselineListingFails
SpecFaulty == InitWatch /\ [][NextFaulty]_vars

(* ------------------------- a run after a run ------------------------- *)
\* Lines 631-695 when a run has been executed before: acquisition_log is
\* reset and a new ledger file is created.  experiment_finished is not
\* assigned before line 793; it keeps the value the earlier run left.  h
\* notes that this is a later run.
ExecuteAgain ==
    /\ pc \in {"finished", "error"}
    /\ h = NoHarness
    /\ acquisition_log' = <<>>
    /\ disk' = <<Header>>
    /\ acquisition_index' = 0
    /\ child' = 1 /\ pic' = 1
    /\ pc' = "prepopulate"
    /\ h' = [phase |-> "again"]
    /\ UNCHANGED <<postVars, resumeVars, plan, cur, rem, folder, watchVars, new_file,
                   result, experiment_finished, trace, crash>>

\* Two runs of a plan of one or two steps, with device calls that raise, and
\* Process Results pressed between and after them.  The camera writes one
\* file for the trigger of an index, so it is silent in the later run.
InitRerun == Init /\ Total(plan) \in {1, 2}
NextRerun ==
    \/ Next
    \/ DeviceFails
    \/ ExecuteAgain
    \/ ProcessResults
SpecRerun == InitRerun /\ [][NextRerun]_vars

(* ------------------------------ properties ---------------------------- *)
Pos == 1..Len(trace)
IsCommand(e) == e.ev \in {"gowave", "trigger"}
Asked(p, answer) == trace[p].ev = "ask" /\ trace[p].arg = answer
Steps == Len(acquisition_log)
\* The ledger statuses in index order.
StatusList(d) == [k \in 1..Cardinality(Indices(d)) |-> StatusOf(d, k - 1)]

\* C1: every change of a record's status in the ledger is pending->completed,
\* pending->timeout, pending->cancelled or timeout->cancelled; a completed,
\* timeout or cancelled record never becomes pending again and a completed
\* or cancelled record never changes.
Forward ==
    {<<"pending", "completed">>, <<"pending", "timeout">>,
     <<"pending", "cancelled">>, <<"timeout", "cancelled">>}
C1_StatusMovesForward ==
    [][\A i \in Indices(disk) \cap Indices(disk)' :
          \/ StatusOf(disk, i)' = StatusOf(disk, i)
          \/ <<StatusOf(disk, i), StatusOf(disk, i)'>> \in Forward]_vars
C1_Witness ==
    /\ pc = "finished"
    /\ StatusList(disk) = <<"completed", "timeout", "cancelled">>

\* C2: the ledger holds at most one record per index and the indices
\* present are exactly 0..k-1, in every state of a run.
C2_UniqueContiguous ==
    /\ \A i \in Indices(disk) : Cardinality(RowsOf(disk, i)) = 1
    /\ Indices(disk) = 0..(Cardinality(Records(disk)) - 1)
C2_Witness ==
    /\ pc = "cancel"
    /\ Cardinality(Records(disk)) = 3
    /\ StatusOf(disk, 0) = "completed"
    /\ StatusOf(disk, 2) = "cancelled"

\* C3: two calls of update_acquisition_log for one index with two statuses
\* leave exactly one record of that index, holding the second status, and
\* the second call adds no row.
C3_SecondStatusWins ==
    h.phase = "twice" =>
        /\ Cardinality(RowsOf(disk, h.index)) = 1
        /\ StatusOf(disk, h.index) = h.status
        /\ Len(disk) = Len(h.before)
C3_Witness ==
    /\ h.phase = "twice"
    /\ ~HasRecord(h.initial, h.index)
    /\ Len(h.initial) = 3
    /\ StatusOf(disk, h.index) = "completed"

\* C4: a plan expands into sum(shotCount) steps of indices 0..N-1 in plan
\* order, each row giving the pictures 1..shotCount in a row with the row's
\* wavelength.
Offset(p, r) == Total(SubSeq(p, 1, r - 1))
C4_Expansion ==
    pc = "loop" =>
        /\ Steps = Total(plan)
        /\ \A k \in 1..Steps : acquisition_log[k].index = k - 1
        /\ \A r \in 1..Len(plan) : \A i \in 1..plan[r].num_pictures :
              LET e == acquisition_log[Offset(plan, r) + i] IN
              e.wavelength = plan[r].wavelength /\ e.pic_num = i
        /\ Indices(disk) = 0..(Total(plan) - 1)
C4_Witness ==
    /\ pc = "loop"
    /\ Len(plan) = 2
    /\ plan[1].wavelength = plan[2].wavelength
    /\ plan[1].num_pictures = 2
    /\ Steps = 3

\* C5: after the operator declines on step s, s stays timeout, the loop has
\* halted, no command is issued for a step after s, and when the handler
\* ends every step after s is cancelled.
C5_DeclineHalts ==
    \A p \in Pos : Asked(p, "no") =>
        LET s == trace[p].index IN
        /\ pc \in {"cancel", "finished"}
        /\ StatusOf(disk, s) = "timeout"
        /\ \A q \in Pos : IsCommand(trace[q]) => trace[q].index <= s /\ q < p
        /\ pc = "finished" =>
              \A j \in s + 1..Steps - 1 : StatusOf(disk, j) = "cancelled"
C5_Witness ==
    /\ pc = "finished"
    /\ \E p \in Pos : Asked(p, "no") /\ trace[p].index = 0
    /\ Steps = 3

\* C6: after the operator continues on step s, s stays timeout for the rest
\* of the run and step s+1 is executed next; with three steps, files for
\* steps 0 and 2 and a continued timeout on step 1, the ledger ends
\* completed, timeout, completed.
Outcomes == SelectSeq(trace, LAMBDA e : e.ev \in {"found", "none", "ask"})
C6_ContinueKeepsTimeout ==
    /\ \A p \in Pos : Asked(p, "yes") =>
          LET s == trace[p].index IN
          /\ StatusOf(disk, s) = "timeout"
          /\ p < Len(trace) =>
                trace[p + 1].ev = "progress" /\ trace[p + 1].index = s + 1
          /\ (pc = "finished" /\ s + 1 < Steps) =>
                \E q \in Pos : q > p /\ trace[q] = Event("trigger", s + 1, "trigger")
    /\ ( /\ pc = "finished"
         /\ Steps = 3
         /\ Len(Outcomes) = 4
         /\ Outcomes[1].ev = "found"
         /\ Outcomes[2].ev = "none"
         /\ Outcomes[3] = Event("ask", 1, "yes")
         /\ Outcomes[4].ev = "found" )
       => StatusList(disk) = <<"completed", "timeout", "completed">>
C6_Witness ==
    /\ pc = "finished"
    /\ Steps = 3
    /\ Len(Outcomes) = 4
    /\ Outcomes[1].ev = "found"
    /\ Outcomes[3] = Event("ask", 1, "yes")
    /\ Outcomes[4].ev = "found"

\* C7: a record is completed exactly if its Raw_Filename is not empty, and
\* then it is the name the watcher returned for that step; a pending,
\* timeout or cancelled record has an empty Raw_Filename and size 0.
C7_FilenameIffCompleted ==
    \A i \in Indices(disk) :
        /\ StatusOf(disk, i) = "completed" <=> RawOf(disk, i) # ""
        /\ StatusOf(disk, i) = "completed" =>
              \E p \in Pos : trace[p] = Event("found", i, RawOf(disk, i))
        /\ StatusOf(disk, i) # "completed" =>
              RawOf(disk, i) = "" /\ ParseInt(SizeOf(disk, i)) = 0
C7_Witness ==
    /\ pc = "finished"
    /\ StatusList(disk) = <<"timeout", "completed", "timeout">>
    /\ RawOf(disk, 1) = NameText(ShotFile(0))

\* C8: the outcome of step s is in the ledger before the operator is asked
\* and before any command of step s+1.
C8_RecordedBeforeDeciding ==
    /\ pc = "ask" => StatusOf(disk, Entry.index) = "timeout"
    /\ \A p \in Pos :
          /\ trace[p].ev = "ask" =>
                \E q \in 1..p - 1 : trace[q] = Event("upsert", trace[p].index, "timeout")
          /\ (IsCommand(trace[p]) /\ trace[p].index > 0) =>
                /\ \E q \in 1..p - 1 :
                      /\ trace[q].ev = "upsert"
                      /\ trace[q].index = trace[p].index - 1
                      /\ trace[q].arg \in {"completed", "timeout"}
                /\ StatusOf(disk, trace[p].index - 1) \in {"completed", "timeout"}
C8_Witness ==
    /\ pc = "ask"
    /\ Entry.index = 1
    /\ StatusOf(disk, 0) = "completed"

\* C9: before the first command of a run the ledger holds one pending
\* record for every step of the expanded plan.
C9_PendingBeforeFirstCommand ==
    /\ (\E p \in Pos : IsCommand(trace[p])) => pc \notin {"idle", "prepopulate"}
    /\ (pc = "loop" /\ cur = 1) =>
          /\ Indices(disk) = 0..(Total(plan) - 1)
          /\ \A i \in Indices(disk) :
                Cardinality(RowsOf(disk, i)) = 1 /\ StatusOf(disk, i) = "pending"
          /\ \A p \in Pos : ~IsCommand(trace[p])
C9_Witness ==
    /\ pc = "trigger"
    /\ cur = 1
    /\ Steps = 3
    /\ \A i \in 0..2 : StatusOf(disk, i) = "pending"

\* C10: after a crash at any point, also inside a ledger update, the ledger
\* on disk has its header and every step but the one in flight has its
\* record with the status last written for it.
C10_CrashKeepsLedger ==
    pc = "crashed" =>
        /\ disk # <<>>
        /\ disk[1] = Header
        /\ \A i \in Indices(crash.before) \ {crash.index} :
              HasRecord(disk, i) /\ RecordOf(disk, i) = RecordOf(crash.before, i)

\* C11: in the synchronous run at most one step is started and not yet
\* resolved; the events of the steps (progress, commands, wait, outcome and
\* its ledger write) never go back to an earlier step; between the trigger
\* of a step and the next command lies the ledger write of that step's
\* outcome; the status writes of the driver loop are in non-decreasing
\* index order.
StepEvents == {"progress", "gowave", "trigger", "wait", "found", "none"}
IsOutcomeWrite(e) == e.ev = "upsert" /\ e.arg \in {"completed", "timeout"}
IsStatusWrite(e) == e.ev = "upsert" /\ e.arg # "pending"
Started == {trace[p].index : p \in {q \in Pos : trace[q].ev \in StepEvents}}
Resolved == {trace[p].index : p \in {q \in Pos : IsOutcomeWrite(trace[q])}}
C11_NoOverlap ==
    /\ Cardinality(Started \ Resolved) <= 1
    /\ \A p, q \in Pos :
          (/\ p < q
           /\ trace[p].ev \in StepEvents \/ IsStatusWrite(trace[p])
           /\ trace[q].ev \in StepEvents \/ IsStatusWrite(trace[q]))
          => trace[p].index <= trace[q].index
    /\ \A p, q \in Pos :
          (p < q /\ trace[p].ev = "trigger" /\ IsCommand(trace[q]))
          => \E r \in p + 1..q - 1 :
                IsOutcomeWrite(trace[r]) /\ trace[r].index = trace[p].index
    /\ \A p \in Pos : trace[p].ev = "trigger" =>
          /\ p > 1
          /\ trace[p - 1] = Event("gowave", trace[p].index,
                                  acquisition_log[trace[p].index + 1].wavelength)
C11_Witness ==
    /\ pc = "finished"
    /\ StatusList(disk) = <<"completed", "timeout", "completed">>
    /\ Cardinality(Resolved) = 3

\* C12: every started synchronous run in which every call returns and the
\* operator answers eventually sets experiment_finished and reaches the end
\* of the handler (where the process button is enabled), after the last
\* step as well as after a declined continuation.
C12_EventuallyFinished ==
    (pc = "prepopulate") ~> (pc = "finished" /\ experiment_finished)
C12_Witness ==
    /\ pc = "finished"
    /\ experiment_finished
    /\ result = FALSE
    /\ StatusList(disk) = <<"timeout", "cancelled", "cancelled">>

\* C13: wait_for_new_file returns a file name only in the step that reads
\* the size of that file a second time, the first read having been taken
\* when the stability sleep began, and only if the file is new, is a .bin
\* file and both reads are equal and not zero; so a file that is larger at
\* every read, or empty, is not returned.
Returns == pc = "probe" /\ pc' = "decide"
C13_StableNonzero ==
    /\ [][(pc # "probe" /\ pc' = "probe") =>
            /\ cand' \in new_files
            /\ file_size' = folder[cand']]_vars
    /\ [][(pc = "probe" /\ pc' = "probe") =>
            /\ cand' = cand
            /\ file_size' = file_size]_vars
    /\ [][(Truthy(new_file') /\ new_file' # new_file) => Returns]_vars
    /\ [][Returns =>
            /\ new_file' = cand
            /\ EndsWithBin(cand)
            /\ cand \notin initial_files
            /\ file_size > 0
            /\ folder[cand] = file_size]_vars
    /\ [][(pc = "probe" /\ (folder[cand] > file_size \/ folder[cand] = 0)) =>
            ~Returns]_vars
C13_Witness ==
    /\ pc = "decide"
    /\ new_file = ShotFile(0)
    /\ folder[new_file] = 2
    /\ StrayFile \in Listing

\* C14: when no new .bin file appears in the raw data folder, every wait
\* ends, returning None; it returns only at a loop test that finds the
\* timeout elapsed, the time waited never passes the timeout by a poll
\* interval, and no file name is ever returned.
C14_TimeoutReturnsNone ==
    /\ (pc = "wait") ~> (pc = "decide" /\ new_file = None)
    /\ [][(pc = "poll" /\ pc' = "decide") =>
            elapsed >= FileTimeout /\ new_file' = None]_vars
    /\ [](elapsed < FileTimeout + PollInterval)
    /\ [](\A p \in Pos : trace[p].ev # "found")
C14_Witness ==
    /\ pc = "decide"
    /\ new_file = None
    /\ Entry.index = 1
    /\ OldFile \in Listing
    /\ StrayFile \in Listing
    /\ trace[Len(trace)] = Event("none", 1, "None")

\* C15: after load_acquisition_from_csv the tree has one row for every
\* wavelength that has a pending, timeout or cancelled record in the ledger,
\* holding the number of those records; a wavelength whose records are all
\* completed has no row, and the counts add up to the number of records
\* that are not completed.
Incomplete(d, w) ==
    {i \in Records(d) : d[i][2] = w /\ d[i][6] \in {"pending", "timeout", "cancelled"}}
C15_LoadCounts ==
    h.phase = "loaded" =>
        /\ \A r \in 1..Len(plan) :
              /\ plan[r].num_pictures = Cardinality(Incomplete(h.initial, plan[r].wavelength))
              /\ plan[r].num_pictures > 0
              /\ \A q \in 1..Len(plan) : q # r => plan[q].wavelength # plan[r].wavelength
        /\ \A w \in Wavelengths :
              Incomplete(h.initial, w) # {} => \E r \in 1..Len(plan) : plan[r].wavelength = w
        /\ Total(plan) =
              Cardinality({i \in Records(h.initial) : h.initial[i][6] # "completed"})
C15_Witness ==
    /\ h.phase = "loaded"
    /\ Len(h.initial) = 4
    /\ h.initial[2][6] = "completed" /\ h.initial[2][2] = "500"
    /\ h.initial[3][6] = "timeout" /\ h.initial[3][2] = "500"
    /\ h.initial[4][6] = "cancelled" /\ h.initial[4][2] = "600"
    /\ plan = <<[wavelength |-> "500", num_pictures |-> 1],
                [wavelength |-> "600", num_pictures |-> 1]>>

\* C16: in a resumed run every trigger is followed by the watcher's wait for
\* that step, and no command of a step is issued before the outcome of the
\* step before it (completed or timeout) is written to the ledger.
C16_ResumedAwaitsArrival ==
    h.phase = "resumed" =>
        /\ \A p \in Pos : (IsCommand(trace[p]) /\ trace[p].index > 0) =>
              \E q \in 1..p - 1 :
                  IsOutcomeWrite(trace[q]) /\ trace[q].index = trace[p].index - 1
        /\ pc = "finished" =>
              \A p \in Pos : trace[p].ev = "trigger" =>
                  \E q \in p + 1..Len(trace) :
                      trace[q] = Event("wait", trace[p].index, ToString(FileTimeout))

\* C18: once the cancellation flag is set, the resumed loop at the top of a
\* step issues no further command, and the background worker begins no
\* further poll: it finishes the probe it is in or leaves its loop.
C18_CancelStopsCommands ==
    /\ [][(stop_monitoring /\ pc = "rloop") =>
            \A p \in Len(trace) + 1..Len(trace') : ~IsCommand(trace'[p])]_vars
    /\ [][(stop_monitoring /\ monitoring_thread.state = "running") =>
            \/ monitoring_thread' = monitoring_thread
            \/ monitoring_thread'.state = "exited"
            \/ monitoring_thread.cand # None]_vars

\* C17: the steps a run executes after a reload are the records of the
\* loaded ledger that are not completed, record by record (wavelength and
\* picture number) in index order, and none of them is a step whose record
\* is completed.
ToRedo(d) == SelectSeq(Tail(d), LAMBDA row : row[6] # "completed")
C17_RedoesIncompleteInOrder ==
    (h.phase = "loaded" /\ pc = "loop") =>
        /\ Len(acquisition_log) = Len(ToRedo(h.initial))
        /\ \A k \in 1..Len(acquisition_log) :
              /\ acquisition_log[k].wavelength = ToRedo(h.initial)[k][2]
              /\ ToString(acquisition_log[k].pic_num) = ToRedo(h.initial)[k][3]
              /\ ~\E i \in Records(h.initial) :
                    /\ h.initial[i][6] = "completed"
                    /\ h.initial[i][2] = acquisition_log[k].wavelength
                    /\ h.initial[i][3] = ToString(acquisition_log[k].pic_num)

\* C19: after a ledger write raised while recording step s the handler has
\* ended: no command of a step after s was or is ever issued, and nothing
\* more is written.
C19_WriteErrorHalts ==
    /\ [](crash.at = "ioerror" =>
            /\ pc = "error"
            /\ \A p \in Pos : IsCommand(trace[p]) => trace[p].index <= crash.index)
    /\ [][crash.at = "ioerror" => (trace' = trace /\ disk' = disk)]_vars
C19_Witness ==
    /\ pc = "error"
    /\ crash.at = "ioerror"
    /\ crash.index = 1
    /\ Steps = 3
    /\ StatusOf(crash.before, 0) = "completed"
    /\ new_file = None
    /\ disk = crash.before

Held(k) == arrays[loaded_cubes[k].cube].data
\* No loaded cube differs from what was loaded.
LoadedUnchanged == \A k \in 1..Len(loaded_cubes) : Held(k) = h.loaded[k]
\* The entries a combine has written: previews and combined rasters.
Artifacts(dir) == {n \in DOMAIN dir : dir[n].kind \in {"png", "envi"}}
SameShape(shapes) == \A s, t \in shapes : s = t
SelectedShapes(sel) == {arrays[loaded_cubes[sel[p]].cube].shape : p \in 1..Len(sel)}

\* C21: a combine over cubes that do not all have the same shape fails with
\* the shape error (no result is shown for a selection of unlike shapes),
\* and a combine that failed so is not applied in part: it has written no
\* combined raster and no preview, for any group, and every loaded cube
\* holds the elements it was loaded with.
C21_ShapeErrorNotPartial ==
    /\ popup.kind \in {"sum", "average"} => SameShape(SelectedShapes(popup.selection))
    /\ popup.kind = "raised" =>
          /\ Artifacts(saved_images) = {}
          /\ Artifacts(output_dir) = {}
          /\ LoadedUnchanged

\* The sum over a selection of the elements of one band, as they were loaded.
RECURSIVE LoadedSum(_, _)
LoadedSum(sel, b) ==
    IF sel = <<>> THEN 0 ELSE h.loaded[sel[1]][b] + LoadedSum(Tail(sel), b)

\* C22: the cube a sum hands over holds, at every element, the sum of the
\* elements of the selected cubes as they were loaded, also when the
\* selection has been summed before.
C22_SumOfLoaded ==
    popup.kind = "sum" =>
        \A b \in 1..Len(arrays[popup.cube].data) :
            arrays[popup.cube].data[b] = LoadedSum(popup.selection, b)

\* The sum over a selection of the elements of one band, as the cubes hold
\* them.
RECURSIVE HeldSum(_, _)
HeldSum(sel, b) ==
    IF sel = <<>> THEN 0 ELSE Held(sel[1])[b] + HeldSum(Tail(sel), b)
Identical(sel) == \A p \in 1..Len(sel) : Held(sel[p]) = Held(sel[1])

\* C23: the cube an average hands over holds, at every element, the sum of
\* the elements of the selected cubes divided by their number (the fraction
\* n/d with n * k = d * sum); for k cubes of the same elements it is the
\* input cube, for every k >= 1.
C23_AverageIsSumOverCount ==
    popup.kind = "average" =>
        LET sel == popup.selection
            k == Len(sel)
            averaged == arrays[popup.cube].data
        IN /\ k >= 1
           /\ Len(averaged) = Len(Held(sel[1]))
           /\ \A b \in 1..Len(averaged) :
                /\ averaged[b][2] > 0
                /\ averaged[b][1] * k = averaged[b][2] * HeldSum(sel, b)
                /\ Identical(sel) => averaged[b] = <<Held(sel[1])[b], 1>>

\* Three cubes of two bands and the same elements have been averaged.
C23_Witness ==
    /\ popup.kind = "average"
    /\ Len(popup.selection) = 3
    /\ Identical(popup.selection)
    /\ arrays[popup.cube].data = <<<<2, 1>>, <<3, 1>>>>

\* The addresses of the loaded cubes.
LoadedAddresses == {loaded_cubes[k].cube : k \in 1..Len(loaded_cubes)}

\* C24: after a sum or an average every loaded cube holds the elements it
\* held before, and the array the operation accumulated in and handed over
\* is none of the loaded cubes.
C24_InputsUnchanged ==
    popup.kind \in {"sum", "average"} =>
        /\ LoadedUnchanged
        /\ popup.cube \notin LoadedAddresses

\* The folders of a sequence whose name has that wavelength as third part.
OfWavelength(folders, w) ==
    SelectSeq(folders, LAMBDA f : Len(f) >= 3 /\ f[3] = w)
\* The combined rasters of the output directory.
Unions == {n \in DOMAIN output_dir : output_dir[n].kind = "envi"}

\* C25: the result of a sum or an average carries the header of the cube
\* ticked first, the combined raster of a wavelength the header of the first
\* folder of that wavelength in the order the folders were passed, whatever
\* the headers of the others; cubes of one shape with unlike headers are
\* combined without an error.
C25_FirstMetadata ==
    /\ popup.kind \in {"sum", "average"} =>
          popup.metadata = loaded_cubes[popup.selection[1]].metadata
    /\ popup.kind = "raised" /\ project_window.state = "none" =>
          ~SameShape(SelectedShapes(popup.selection))
    /\ project_window.state = "open" =>
          \A n \in Unions :
              output_dir[n].metadata =
                  saved_images[OfWavelength(project_window.folders, n[3])[1]].metadata

\* Cube 3 was ticked before cube 1 and the two were summed.
C25_Witness ==
    /\ popup.kind = "sum"
    /\ popup.selection = <<3, 1>>
    /\ popup.metadata = [description |-> "cube3"]
    /\ loaded_cubes[1].metadata = [description |-> "cube1"]

\* The wavelengths of the plan, and the folders of the steps of one
\* wavelength: the k-th folder the camera software saved is that of step k.
PlanWavelengths == {plan[r].wavelength : r \in 1..Len(plan)}
StepFolders(folders, w) ==
    LET entries == Expand(plan)
        steps == SelectSeq([k \in 1..Len(folders) |-> k],
                           LAMBDA k : entries[k].wavelength = w)
    IN [p \in 1..Len(steps) |-> folders[steps[p]]]
Previews == {n \in DOMAIN output_dir : output_dir[n].kind = "png"}

\* C26: after the per-wavelength combine of a run the output directory holds
\* one combined raster and one preview for every wavelength of the plan and
\* no other, each the sum of the cubes of the steps of that wavelength.
C26_GroupedByPlanWavelength ==
    popup.kind = "batch" =>
        /\ Unions = {UnionName(w) : w \in PlanWavelengths}
        /\ Previews = {CombinedName(w) : w \in PlanWavelengths}
        /\ \A w \in PlanWavelengths :
            LET group == CombineFolders(StepFolders(project_window.folders, w),
                                        1, Array(<<>>))
            IN /\ ~group.raised
               /\ output_dir[UnionName(w)].of = group.combined_cube.data
               /\ output_dir[CombinedName(w)].of = group.combined_cube.data

(* ------------------------- ledgers of several runs ------------------- *)
\* C27: no two runs that create their ledger in the same output directory
\* get the same ledger file name, and the creation of a run's ledger leaves
\* every ledger that was in the directory as it was.
C27_LedgerNamesDistinct ==
    /\ Distinct(h.created)
    /\ \A r \in 1..Len(h.created) : h.created[r] \notin DOMAIN h.before[r]

(* --------------------- copying into the output folder ---------------- *)
\* The folders of the output directory made by rename_and_copy_folders.
Copies(dir) == {n \in DOMAIN dir : dir[n].kind = "copy"}

\* C28: when the copy of the run's folders into the output directory has
\* failed at some folder, no folder of the output directory is a copy that
\* lacks a file of the folder it was copied from.
C28_NoPartialCopy ==
    project_window.state = "failed" =>
        \A n \in Copies(output_dir) : output_dir[n].files = CubeFiles

(* --------------------------- nothing to resume ----------------------- *)
\* The records of a ledger that are pending, timeout or cancelled.
ToResume(d) == {i \in Records(d) : d[i][6] \in {"pending", "timeout", "cancelled"}}

\* C29: after load_acquisition_from_csv of a ledger without a pending,
\* timeout or cancelled record, the message "No Incomplete Acquisitions" is
\* shown, the tree has no row, and no device command has been issued.
C29_NothingToResume ==
    (h.phase = "loaded" /\ ToResume(h.initial) = {}) =>
        /\ popup.kind = "showinfo"
        /\ popup.title = "No Incomplete Acquisitions"
        /\ plan = <<>>
        /\ trace = <<>>
\* A ledger of two completed records has been loaded.
C29_Witness ==
    /\ h.phase = "loaded"
    /\ ToResume(h.initial) = {}
    /\ Cardinality(Records(h.initial)) >= 2
    /\ popup.kind = "showinfo"

(* ------------------------ the events of a step ----------------------- *)
\* The progress, wavelength, trigger and wait events of the run so far.
StepEventKinds == <<"progress", "gowave", "trigger", "wait">>
IsStepEvent(e) == \E s \in 1..4 : e.ev = StepEventKinds[s]
SequencerEvents(t) == SelectSeq(t, IsStepEvent)
\* The i-th of them is the event the plan calls for at that place.
AsPlanned(e, i) ==
    LET entry == Expand(plan)[((i - 1) \div 4) + 1]
        slot == ((i - 1) % 4) + 1
    IN /\ e.ev = StepEventKinds[slot]
       /\ e.index = entry.index
       /\ slot = 1 => e.arg = StatusText(entry, Total(plan))
       /\ slot = 2 => e.arg = entry.wavelength
       /\ slot = 4 => e.arg = ToString(FileTimeout)

\* C30: the progress, gowave, trigger and wait events of a synchronous run
\* are, step after step in increasing index, the progress event of the
\* step, gowave with the step's wavelength, the trigger and the wait with
\* file_timeout, each once; and the outcome of a step is recorded only
\* after the four events of that step.
C30_StepEventOrder ==
    LET s == SequencerEvents(trace) IN
    /\ Len(s) <= 4 * Total(plan)
    /\ \A i \in 1..Len(s) : AsPlanned(s[i], i)
    /\ \A j \in 1..Len(trace) :
          (trace[j].ev = "upsert" /\ trace[j].arg \in {"completed", "timeout"}) =>
              Len(SequencerEvents(SubSeq(trace, 1, j))) = 4 * (trace[j].index + 1)
\* Two steps have run, the first of them timed out.
C30_Witness ==
    /\ Len(SequencerEvents(trace)) >= 8
    /\ \E j \in 1..Len(trace) :
          trace[j].ev = "upsert" /\ trace[j].arg = "timeout" /\ trace[j].index = 0
    /\ \E j \in 1..Len(trace) :
          trace[j].ev = "upsert" /\ trace[j].arg = "completed" /\ trace[j].index = 1

(* ------------------------ what the watcher returns ------------------- *)
\* C31: a file name wait_for_new_file returns is the name of a file of the
\* raw data folder that was not in the listing taken at the start of that
\* wait and that ends with .bin; a file of the baseline and a new file of
\* another extension are never returned, and never become the candidate.
C31_NewBinOnly ==
    /\ [][(pc = "probe" /\ pc' = "decide") =>
            /\ new_file' \in Listing \ initial_files
            /\ EndsWithBin(new_file')]_vars
    /\ [](pc = "probe" => cand \notin initial_files /\ EndsWithBin(cand))
    /\ [](\A p \in Pos : trace[p].ev = "found" => trace[p].arg # NameText(StrayFile))
\* The second wait has returned its file; the file of the first step was in
\* its baseline and a file of another kind appeared during a wait.
C31_Witness ==
    /\ pc = "decide"
    /\ new_file = ShotFile(1)
    /\ Entry.index = 1
    /\ ShotFile(0) \in Listing /\ folder[ShotFile(0)] > 0
    /\ StrayFile \in Listing

(* ---------------------- I/O errors during a wait --------------------- *)
WaitPcs == {"wait", "poll", "scan", "probe"}

\* C32: an I/O error while wait_for_new_file lists the folder or reads the
\* size of a file does not end the wait: from its call to its return the
\* watcher stays in its loop, the wait ends only by returning to the driver
\* loop, and an error inside the loop costs the round and no more than the
\* stability sleep and a poll interval.
C32_ErrorsAbsorbed ==
    /\ [][(pc \in WaitPcs) => (pc' \in WaitPcs \/ pc' = "decide")]_vars
    /\ [][(pc \in WaitPcs /\ pc' = "poll" /\ pc # "wait") =>
            elapsed' <= elapsed + StabilityWindow + PollInterval]_vars

(* ------------------- the baseline and the step's own file ------------ *)
\* C33: the file the camera creates for the trigger of a step is not in the
\* baseline of that step's wait: while the wait of step s goes on, the file
\* of trigger s, once it is in the folder, is among the new files.
C33_OwnFileNotInBaseline ==
    (pc \in {"poll", "scan", "probe"}) => ShotFile(Entry.index) \notin initial_files

(* ------------------- the file recorded for a step -------------------- *)
\* C34: the raw file name a completed record carries is the name of the
\* file the camera wrote for the trigger of that record's step, never the
\* file of the trigger of an earlier step.
C34_OwnFileRecorded ==
    \A i \in Indices(disk) :
        StatusOf(disk, i) = "completed" => RawOf(disk, i) = NameText(ShotFile(i))

(* --------------------- one record for one raw file ------------------- *)
\* The records of the ledger that are completed.
Completed(d) == {i \in Indices(d) : StatusOf(d, i) = "completed"}

\* C35: in a run during which no file leaves the raw data folder, no two
\* completed records carry the same raw file name; the file of a completed
\* record is in the baseline of every later wait.
C35_DistinctRawFiles ==
    /\ \A i, j \in Completed(disk) : i # j => RawOf(disk, i) # RawOf(disk, j)
    /\ (pc \in {"poll", "scan", "probe"}) =>
          \A i \in Completed(disk) :
              RawOf(disk, i) \in {NameText(f) : f \in initial_files}
\* Two steps are completed and a third waits.
C35_Witness ==
    /\ Cardinality(Completed(disk)) >= 2
    /\ pc = "poll"
    /\ initial_files # {}

(* ------------------------- the ledger of a finished run -------------- *)
\* The operator has answered no to a timeout.
Halted == \E p \in Pos : Asked(p, "no")

\* C36: when experiment_finished is set at the end of a synchronous run,
\* the ledger has a record for every step of the plan and none of them is
\* pending: every record is completed or timeout when the loop ran to its
\* end, and completed, timeout or cancelled when the operator halted it.
C36_NoPendingWhenFinished ==
    experiment_finished =>
        /\ Indices(disk) = 0..(Total(plan) - 1)
        /\ \A i \in Indices(disk) :
              /\ StatusOf(disk, i) # "pending"
              /\ StatusOf(disk, i) \in {"completed", "timeout", "cancelled"}
              /\ ~Halted => StatusOf(disk, i) \in {"completed", "timeout"}
\* A halted run is finished with a completed, a timeout and a cancelled
\* record.
C36_Witness ==
    /\ experiment_finished
    /\ Halted
    /\ \E i, j, k \in Indices(disk) :
          /\ StatusOf(disk, i) = "completed"
          /\ StatusOf(disk, j) = "timeout"
          /\ StatusOf(disk, k) = "cancelled"

(* ------------------------ the frame of an upsert --------------------- *)
\* C37: after update_acquisition_log for index i on a ledger with its
\* header, the header is the first row, every row of another index is where
\* it was and as it was, and a record of index i is there: in the place of
\* the one there was, or as a new last row when there was none.
C37_UpsertFrame ==
    (h.phase \in {"once", "twice"}) =>
        /\ disk[1] = Header
        /\ Len(disk) >= Len(h.before)
        /\ \A k \in 2..Len(h.before) :
              IndexOf(h.before[k]) # h.index => disk[k] = h.before[k]
        /\ HasRecord(disk, h.index)
        /\ IF HasRecord(h.before, h.index)
           THEN /\ Len(disk) = Len(h.before)
                /\ RowsOf(disk, h.index) = RowsOf(h.before, h.index)
           ELSE /\ Len(disk) = Len(h.before) + 1
                /\ RowsOf(disk, h.index) = {Len(disk)}
\* A record was appended to a ledger of two records of other indices, and
\* then written again in its place.
C37_Witness ==
    /\ h.phase = "twice"
    /\ ~HasRecord(h.initial, h.index)
    /\ Len(h.initial) = 3
    /\ RowsOf(disk, h.index) = {4}
    /\ IndexOf(disk[2]) > IndexOf(disk[3])

(* ------------------- the finished flag of a later run ---------------- *)
\* C38: experiment_finished is not set while a run started after another is
\* still executing, nor after such a run was left by an exception; the
\* handler of Process Results passes its test of the flag only after the run
\* started last has ended its driver loop.
C38_FinishedIsOfLastRun ==
    /\ []((h.phase = "again" /\ pc \in RunningPcs \cup {"error"}) =>
            ~experiment_finished)
    /\ [][(pc' = "processed") => (pc = "finished")]_vars
====
